---- MODULE Spec2Model ----
(***************************************************************************)
(* Model of the data-acquisition core of widgetwatch:                      *)
(*   - the FR24 schedule handler (global rate limiter, bounded TTL cache,  *)
(*     paginated aggregation loop), and                                    *)
(*   - the flight-times handler (bounded TTL cache, per-client limiter).   *)
(* Time is the value of Date.now() in milliseconds.                        *)
(***************************************************************************)
EXTENDS Integers, Sequences, FiniteSets, TLC

\* ---------------------------------------------------------------- bounds
StartTime == 100000       \* Date.now() when the observation starts
NumCallers == 2           \* concurrent callers of rateLimitedFetch
RLStep == 500             \* granularity of the clock in the limiter runs
RLTicks == 8              \* clock values explored in the limiter runs
PrefillGap == 0           \* a warm cache starts PrefillGap entries short of full
NumFresh == 1             \* keys never stored before the observation starts
MaxCacheOps == 3          \* cache reads and writes per run
MaxChecks == 7            \* per-client limiter checks per run
MaxPageLen == 2           \* records on one upstream page
MaxTotal == 2             \* largest page count the upstream reports
MaxRequests == 2          \* requests one handler accepts per run
MaxKeys == 3              \* flight keys of one tracking page
MaxSched == 2             \* largest scheduled gate-departure epoch on a page
MaxRawLen == 3            \* length of the enumerated flight designators

\* ------------------------------------------------------ program constants
MAX_CACHE_SIZE == 200
MIN_REQUEST_INTERVAL == 2000
CACHE_TTL_MS == 120000
FT_CACHE_LIMIT == 200     \* the literal of setCache's size test
RATE_WINDOW_MS == 60000
RATE_MAX == 5
TTL_RECENT == 60000
TTL_OLD == 300000
MAX_PAGES == 20
FETCH_TIMEOUT_MS == 8000      \* abort timer of rateLimitedFetch
FT_FETCH_TIMEOUT_MS == 10000  \* abort timer of the flight-times fetch
DAY_SECONDS == 86400

VARIABLES
  proc,             \* which of the two serverless functions this process runs
  clock,            \* Date.now()
  lastFR24Request,  \* shared last-call time of the global rate limiter
  pc,               \* per caller: position inside rateLimitedFetch
  callNow,          \* per caller: the local `now` read on entry
  wakeAt,           \* per caller: earliest firing time of its setTimeout
  dispatchAt,       \* per caller: value it last wrote to lastFR24Request
  abortAt,          \* per caller: firing time of its pending abort timer, 0 if none
  ncalls,           \* number of rateLimitedFetch calls issued so far
  dispatches,       \* history: upstream dispatch timestamps, in order
  schedCache,       \* `cache` of the schedule handler, in Map iteration order
  ftCache,          \* `cache` of the flight-times handler, in Map iteration order
  cacheOps,         \* number of direct cache reads and writes so far
  rateLimitByIp,    \* client identifier -> log of allowed call timestamps
  allowedLog,       \* history: per client, every timestamp that was allowed
  nchecks,          \* number of limiter checks so far
  ret,              \* the last operation and what it returned
  query,            \* req.query of the schedule request being handled
  agg,              \* the schedule handler's request and loop variables
  requested,        \* history: page numbers passed to fetchOnePage, in order
  lastPage,         \* history: the page whose processing ended the request
  boundaryAt,       \* history: number of the first page with a record past the day
  pageLens,         \* history: record count of each page delivered to the request
  response,         \* the schedule handler's last HTTP response
  nreqs,            \* number of requests the handlers have accepted so far
  served,           \* history: the 200 responses built from upstream data
  ft,               \* the flight-times handler's request and position
  ftResponse,       \* the flight-times handler's last HTTP response
  parked            \* the other invocation in flight, suspended at an await

rlVars == <<lastFR24Request, pc, callNow, wakeAt, dispatchAt, abortAt, ncalls, dispatches>>
cacheVars == <<schedCache, ftCache, cacheOps>>
limVars == <<rateLimitByIp, allowedLog, nchecks>>
aggVars == <<query, agg, requested, lastPage, boundaryAt, pageLens, response, nreqs, served>>
ftVars == <<ft, ftResponse>>
vars == <<proc, clock, rlVars, cacheVars, limVars, ret, aggVars, ftVars, parked>>

Callers == 1..NumCallers
RLTimes == {StartTime + i * RLStep : i \in 0..RLTicks}

Max(a, b) == IF a >= b THEN a ELSE b
Min(a, b) == IF a <= b THEN a ELSE b

\* ------------------------------------------------------------------ clock
\* Date.now() is non-decreasing; it moves to a later instant of the set T.
Tick(T) ==
  /\ \E t \in T : t > clock /\ clock' = t
  /\ UNCHANGED <<proc, parked, ftVars, rlVars, cacheVars, limVars, ret, aggVars>>

\* ---------------------------------------------------- global rate limiter
WaitFor_twice(now, last) == 2 * Max(0, MIN_REQUEST_INTERVAL - (now - last))
WaitFor_noWait(now, last) == 0
\* wait = Math.max(0, MIN_REQUEST_INTERVAL - (now - lastFR24Request))
WaitFor(now, last) == Max(0, MIN_REQUEST_INTERVAL - (now - last))

\* lastFR24Request = Date.now(); the abort timer is armed and fetch(url) is
\* issued.
Dispatch(c) ==
  /\ lastFR24Request' = clock
  /\ dispatchAt' = [dispatchAt EXCEPT ![c] = clock]
  /\ abortAt' = [abortAt EXCEPT ![c] = clock + FETCH_TIMEOUT_MS]
  /\ dispatches' = Append(dispatches, clock)
  /\ pc' = [pc EXCEPT ![c] = "fetching"]

\* Entry of rateLimitedFetch up to its first suspension point: with wait = 0
\* the function runs on to the dispatch without yielding, otherwise it
\* suspends on the timer.
RLEnter(c) ==
  /\ ncalls' = ncalls + 1
  /\ callNow' = [callNow EXCEPT ![c] = clock]
  /\ LET wait == WaitFor(clock, lastFR24Request) IN
       IF wait > 0
       THEN /\ pc' = [pc EXCEPT ![c] = "sleeping"]
            /\ wakeAt' = [wakeAt EXCEPT ![c] = clock + wait]
            /\ UNCHANGED <<lastFR24Request, dispatchAt, abortAt, dispatches>>
       ELSE /\ Dispatch(c)
            /\ UNCHANGED wakeAt

\* The timer has fired: the caller resumes after the await and dispatches.
RLResume(c) ==
  /\ pc[c] = "sleeping"
  /\ clock >= wakeAt[c]
  /\ Dispatch(c)
  /\ UNCHANGED <<callNow, wakeAt, ncalls>>

\* The awaited fetch settles (response, error or abort): clearTimeout, and
\* the call returns.
RLReturn(c) ==
  /\ pc[c] = "fetching"
  /\ pc' = [pc EXCEPT ![c] = "idle"]
  /\ abortAt' = [abortAt EXCEPT ![c] = 0]
  /\ UNCHANGED <<lastFR24Request, callNow, wakeAt, dispatchAt, ncalls, dispatches>>

\* rateLimitedFetch called by a caller other than the modelled handler
RLCall(c) == proc = "schedule" /\ pc[c] = "idle" /\ RLEnter(c) /\ UNCHANGED <<proc, parked, ftVars, clock, cacheVars, limVars, ret, aggVars>>
RLWake(c) == RLResume(c) /\ UNCHANGED <<proc, parked, ftVars, clock, cacheVars, limVars, ret, aggVars>>
RLFetchDone(c) == RLReturn(c) /\ UNCHANGED <<proc, parked, ftVars, clock, cacheVars, limVars, ret, aggVars>>

\* ---------------------------------------------------- JavaScript Map model
\* A Map is the sequence of its entries in iteration (insertion) order; each
\* entry carries its key.
Null == [null |-> TRUE]

MapKeys(m) == [i \in 1..Len(m) |-> m[i].key]
MapHas(m, k) == \E i \in 1..Len(m) : m[i].key = k
MapGet(m, k) == m[CHOOSE i \in 1..Len(m) : m[i].key = k]
\* Map.prototype.delete: removes the entry, the others keep their order.
MapDelete(m, k) == SelectSeq(m, LAMBDA e : e.key # k)
\* Map.prototype.set: an existing key keeps its position, a new key goes last.
MapSet_keepFirst(m, e) == IF MapHas(m, e.key) THEN m ELSE Append(m, e)
MapSet(m, e) ==
  IF MapHas(m, e.key)
  THEN [i \in 1..Len(m) |-> IF m[i].key = e.key THEN e ELSE m[i]]
  ELSE Append(m, e)
\* cache.keys().next().value, then cache.delete(it)
MapDeleteFirst(m) == IF Len(m) = 0 THEN m ELSE MapDelete(m, m[1].key)

CacheKeys == {1} \cup {MAX_CACHE_SIZE + i : i \in 1..NumFresh}
Data == {1, 2}
\* what the handler stores: a payload with the ttl of its day window
SchedInputs == {[data |-> 1, ttl |-> TTL_RECENT], [data |-> 2, ttl |-> TTL_OLD]}
CacheTimes ==
  {StartTime + t : t \in {0, TTL_RECENT, TTL_RECENT + 1, CACHE_TTL_MS, CACHE_TTL_MS + 1}}

Ret(op, arg, found, val, expired) ==
  [op |-> op, arg |-> arg, found |-> found, val |-> val, expired |-> expired]

\* ------------------------------------------------- schedule cache (FR24)
SchedExpired_ge(entry, now) == now >= entry.expires
\* Date.now() > entry.expires
SchedExpired(entry, now) == now > entry.expires

\* cache.size >= MAX_CACHE_SIZE
SchedFull(m) == Len(m) >= MAX_CACHE_SIZE

\* cacheGet(key) on map m at time now: what it returns and the map it leaves
CacheGetOn(m, k, now) ==
  IF ~MapHas(m, k)
  THEN [found |-> FALSE, val |-> Null, expired |-> FALSE, map |-> m]
  ELSE LET entry == MapGet(m, k) IN
       IF SchedExpired(entry, now)
       THEN [found |-> FALSE, val |-> Null, expired |-> TRUE, map |-> MapDelete(m, k)]
       ELSE [found |-> TRUE, val |-> entry, expired |-> FALSE, map |-> m]

\* cacheSet(key, data, ttlMs) on map m at time now: the map it leaves
CacheSetOn_evictExpired(m, k, data, ttlMs, now) ==
  LET stale == {i \in 1..Len(m) : SchedExpired(m[i], now)}
      victim == IF stale = {} THEN 1 ELSE CHOOSE i \in stale : \A j \in stale : i <= j
  IN MapSet(IF SchedFull(m) /\ Len(m) > 0 THEN MapDelete(m, m[victim].key) ELSE m,
            [key |-> k, data |-> data, expires |-> now + ttlMs, time |-> now])
CacheSetOn(m, k, data, ttlMs, now) ==
  MapSet(IF SchedFull(m) THEN MapDeleteFirst(m) ELSE m,
         [key |-> k, data |-> data, expires |-> now + ttlMs, time |-> now])

CacheGet(k) ==
  /\ proc = "schedule"
  /\ cacheOps < MaxCacheOps
  /\ cacheOps' = cacheOps + 1
  /\ LET r == CacheGetOn(schedCache, k, clock) IN
       /\ schedCache' = r.map
       /\ ret' = Ret("cacheGet", k, r.found, r.val, r.expired)
  /\ UNCHANGED <<proc, parked, ftVars, clock, rlVars, ftCache, limVars, aggVars>>

\* cacheSet(key, data, ttlMs); val records the entry under firstKey that the
\* call deleted (Null when it deleted none)
CacheSet(k, data, ttlMs) ==
  /\ proc = "schedule"
  /\ cacheOps < MaxCacheOps
  /\ cacheOps' = cacheOps + 1
  /\ schedCache' = CacheSetOn(schedCache, k, data, ttlMs, clock)
  /\ ret' = Ret("cacheSet", k, FALSE,
              IF SchedFull(schedCache) /\ Len(schedCache) > 0 THEN schedCache[1] ELSE Null,
              FALSE)
  /\ UNCHANGED <<proc, parked, ftVars, clock, rlVars, ftCache, limVars, aggVars>>

\* --------------------------------------------- flight-times cache (FlightAware)
\* Date.now() - entry.ts > CACHE_TTL_MS
FtExpired(entry, now) == now - entry.ts > CACHE_TTL_MS

\* cache.size > 200
FtFull(m) == Len(m) > FT_CACHE_LIMIT

\* getCached(key) on map m at time now
GetCachedOn(m, k, now) ==
  IF ~MapHas(m, k)
  THEN [found |-> FALSE, val |-> Null, expired |-> FALSE, map |-> m]
  ELSE LET entry == MapGet(m, k) IN
       IF FtExpired(entry, now)
       THEN [found |-> FALSE, val |-> Null, expired |-> TRUE, map |-> MapDelete(m, k)]
       ELSE [found |-> TRUE, val |-> entry.data, expired |-> FALSE, map |-> m]

\* setCache(key, data) on map m at time now
SetCacheOn(m, k, data, now) ==
  MapSet(IF FtFull(m) THEN MapDeleteFirst(m) ELSE m,
         [key |-> k, data |-> data, ts |-> now])

GetCached(k) ==
  /\ proc = "flight-times"
  /\ cacheOps < MaxCacheOps
  /\ cacheOps' = cacheOps + 1
  /\ LET r == GetCachedOn(ftCache, k, clock) IN
       /\ ftCache' = r.map
       /\ ret' = Ret("getCached", k, r.found, r.val, r.expired)
  /\ UNCHANGED <<proc, parked, ftVars, clock, rlVars, schedCache, limVars, aggVars>>

\* setCache(key, data); val records the entry under the oldest key that the
\* call deleted (Null when it deleted none)
SetCache(k, data) ==
  /\ proc = "flight-times"
  /\ cacheOps < MaxCacheOps
  /\ cacheOps' = cacheOps + 1
  /\ ftCache' = SetCacheOn(ftCache, k, data, clock)
  /\ ret' = Ret("setCache", k, FALSE,
              IF FtFull(ftCache) /\ Len(ftCache) > 0 THEN ftCache[1] ELSE Null,
              FALSE)
  /\ UNCHANGED <<proc, parked, ftVars, clock, rlVars, schedCache, limVars, aggVars>>

\* The caches after n distinct keys 1..n were stored at StartTime.
WarmSched(n) ==
  [i \in 1..n |-> [key |-> i, data |-> 1, expires |-> StartTime + TTL_RECENT,
                   time |-> StartTime]]
WarmFt(n) == [i \in 1..n |-> [key |-> i, data |-> 1, ts |-> StartTime]]

\* ------------------------------------------------- per-client limiter
\* A header value is a string seen as its comma-separated parts; a part is
\* its content (id) and whether white space surrounds it.
Part(pad, id) == [pad |-> pad, id |-> id]
Str(parts) == [kind |-> "string", parts |-> parts]
Arr(strs) == [kind |-> "array", items |-> strs]
Absent == [kind |-> "absent"]

\* raw.split(',')[0]?.trim()
FirstTrimmed(str) == str.parts[1].id

GetClientIp_shared(req) == "unknown"
\* getClientIp(req)
GetClientIp(req) ==
  LET xff == req.xff
      raw == IF xff.kind = "array" THEN xff.items[1]
             ELSE IF xff.kind = "string" THEN xff
             ELSE Str(<<Part(FALSE, "")>>)
      first == FirstTrimmed(raw)
  IN IF first # "" THEN first
     ELSE IF req.realIp # "" THEN req.realIp
     ELSE "unknown"

Requests ==
  { [xff |-> Absent, realIp |-> ""],
    [xff |-> Absent, realIp |-> "a"],
    [xff |-> Str(<<Part(FALSE, "a")>>), realIp |-> "b"],
    [xff |-> Str(<<Part(TRUE, "a"), Part(TRUE, "b")>>), realIp |-> ""],
    [xff |-> Arr(<<Str(<<Part(FALSE, "a")>>), Str(<<Part(FALSE, "b")>>)>>), realIp |-> ""],
    [xff |-> Str(<<Part(TRUE, "")>>), realIp |-> "a"] }

\* requests of three clients: no header, x-real-ip only, and
\* x-forwarded-for as a list, as an empty value and as an array
ClientRequests ==
  { [xff |-> Absent, realIp |-> ""],
    [xff |-> Absent, realIp |-> "a"],
    [xff |-> Str(<<Part(TRUE, "a"), Part(TRUE, "b")>>), realIp |-> "b"],
    [xff |-> Str(<<Part(TRUE, "")>>), realIp |-> "b"],
    [xff |-> Arr(<<Str(<<Part(FALSE, "b")>>), Str(<<Part(FALSE, "a")>>)>>), realIp |-> "a"] }

Ips == {GetClientIp(r) : r \in Requests \cup ClientRequests}

LimTimes ==
  {StartTime + t : t \in {0, RATE_WINDOW_MS \div 2, RATE_WINDOW_MS, RATE_WINDOW_MS + 1,
                          2 * RATE_WINDOW_MS + 1, 2 * RATE_WINDOW_MS + 2}}

PruneLog_once(ipLog, now) ==
  IF Len(ipLog) > 0 /\ ipLog[1] < now - RATE_WINDOW_MS THEN Tail(ipLog) ELSE ipLog
\* while (ipLog.length && ipLog[0] < now - 60_000) ipLog.shift();
RECURSIVE PruneLog(_, _)
PruneLog(ipLog, now) ==
  IF Len(ipLog) > 0 /\ ipLog[1] < now - RATE_WINDOW_MS
  THEN PruneLog(Tail(ipLog), now)
  ELSE ipLog

OverQuota_gt(ipLog) == Len(ipLog) > RATE_MAX
\* if (ipLog.length >= 5) return true;
OverQuota(ipLog) == Len(ipLog) >= RATE_MAX

LogAfterCheck_push(ipLog, now) == Append(PruneLog(ipLog, now), now)
\* The log a check leaves behind: pruned, and with `now` appended only when
\* the check is allowed.
LogAfterCheck(ipLog, now) ==
  LET pruned == PruneLog(ipLog, now) IN
    IF OverQuota(pruned) THEN pruned ELSE Append(pruned, now)

\* isRateLimited(req)
IsRateLimited(req) ==
  LET ip == GetClientIp(req)
      ipLog == IF ip \in DOMAIN rateLimitByIp THEN rateLimitByIp[ip] ELSE << >>
      limited == OverQuota(PruneLog(ipLog, clock))
  IN /\ proc = "flight-times"
     /\ nchecks < MaxChecks
     /\ nchecks' = nchecks + 1
     /\ rateLimitByIp' =
          [i \in DOMAIN rateLimitByIp \cup {ip} |->
             IF i = ip THEN LogAfterCheck(ipLog, clock) ELSE rateLimitByIp[i]]
     /\ allowedLog' = IF limited THEN allowedLog
                      ELSE [allowedLog EXCEPT ![ip] = Append(@, clock)]
     /\ ret' = Ret("isRateLimited", ip, FALSE, limited, FALSE)
     /\ UNCHANGED <<proc, parked, ftVars, clock, rlVars, cacheVars, aggVars>>

\* ------------------------------------------------------ query parameters
\* A query parameter is absent, a word compared as a whole (hub, dir), or a
\* text given character by character (timestamp, page, flight).
Word(str) == [kind |-> "word", str |-> str]
Text(chars) == [kind |-> "text", chars |-> chars]

NullValue == [kind |-> "null"]

\* JavaScript truthiness of a value: undefined, null and '' are falsy, an
\* array is truthy.
Truthy(q) ==
  \/ q.kind = "word" /\ q.str # ""
  \/ q.kind = "text" /\ Len(q.chars) > 0
  \/ q.kind = "array"

\* NaN is kept apart from every number a text can denote.
NaN == -2147483647

DigitChars == <<"0", "1", "2", "3", "4", "5", "6", "7", "8", "9">>
IsDigit(c) == \E d \in 1..10 : DigitChars[d] = c
DigitVal(c) == (CHOOSE d \in 1..10 : DigitChars[d] = c) - 1
IsSpace(c) == c = " "

RECURSIVE SkipSpaces(_)
SkipSpaces(t) == IF Len(t) > 0 /\ IsSpace(t[1]) THEN SkipSpaces(Tail(t)) ELSE t

RECURSIVE DigitsValue(_, _)
DigitsValue(t, acc) ==
  IF Len(t) > 0 /\ IsDigit(t[1])
  THEN DigitsValue(Tail(t), acc * 10 + DigitVal(t[1]))
  ELSE acc

\* parseInt(text): leading white space, an optional sign, then the longest
\* run of digits; NaN when there is no digit.
ParseInt(t) ==
  LET u == SkipSpaces(t)
      signed == Len(u) > 0 /\ u[1] \in {"-", "+"}
      v == IF signed THEN Tail(u) ELSE u
  IN IF Len(v) = 0 \/ ~IsDigit(v[1]) THEN NaN
     ELSE IF signed /\ u[1] = "-" THEN 0 - DigitsValue(v, 0)
     ELSE DigitsValue(v, 0)

\* ------------------------------------------------- schedule handler (FR24)
Handler == 1              \* the handler as a caller of rateLimitedFetch
Dirs == {"departures", "arrivals"}
\* req.query.timestamp: the day window that starts now
TsInputs == {StartTime \div 1000}
\* the instants at which successive pages can be dispatched
AggTimes == {StartTime + i * MIN_REQUEST_INTERVAL : i \in 0..(MaxTotal - 1)}

\* One entry of sched.data: whether entry.flight exists, its airline code,
\* its scheduled departure and arrival (0 when the field is missing).
Entry(flight, iata, dep, arr) ==
  [flight |-> flight, iata |-> iata, dep |-> dep, arr |-> arr]

Entries(ts) ==
  LET dayEnd == ts + DAY_SECONDS IN
    { Entry(FALSE, "", 0, 0),
      Entry(TRUE, "DL", dayEnd, dayEnd),
      Entry(TRUE, "UA", dayEnd, dayEnd - 1),
      Entry(TRUE, "UA", dayEnd - 1, dayEnd),
      Entry(TRUE, "UA", 0, 0) }

\* What fetchOnePage returns: sched.page.total (0 when missing) and sched.data.
Pages(ts) ==
  [total : 0..MaxTotal,
   data : UNION {[1..n -> Entries(ts)] : n \in 0..MaxPageLen}]

\* Upstream pages of at most one record, reporting no page count, a small
\* one, or one beyond MAX_PAGES.
LongTotals == {0, MaxTotal + 1, MAX_PAGES + 1}
LongPages ==
  [total : LongTotals,
   data : {<< >>, <<Entry(TRUE, "DL", 0, 0)>>, <<Entry(TRUE, "UA", 0, 0)>>}]

\* dir === 'departures' ? schedDep : schedArr
FlightTime(e, dir) == IF dir = "departures" THEN e.dep ELSE e.arr

\* fl.airline?.code?.iata !== 'UA'  (after: if (!fl) continue)
IsUA(e) == e.flight /\ e.iata = "UA"

PastDay_absentIsPast(e, dir, dayEnd) ==
  dayEnd # NaN /\ (FlightTime(e, dir) = 0 \/ FlightTime(e, dir) >= dayEnd)
\* flightTime && flightTime >= dayEnd  (no number is >= NaN)
PastDay(e, dir, dayEnd) ==
  dayEnd # NaN /\ FlightTime(e, dir) # 0 /\ FlightTime(e, dir) >= dayEnd

\* the page holds a carrier-matching record at or past the day boundary
HasBoundary(data, dir, dayEnd) ==
  \E i \in 1..Len(data) :
    /\ data[i].flight /\ data[i].iata = "UA"
    /\ LET t == IF dir = "departures" THEN data[i].dep ELSE data[i].arr
       IN dayEnd # NaN /\ t # 0 /\ t >= dayEnd

RECURSIVE ScanPage_noBreak(_, _, _, _, _)
ScanPage_noBreak(data, i, dir, dayEnd, acc) ==
  IF i > Len(data)
  THEN [flights |-> acc,
        pastDay |-> \E j \in 1..Len(data) : IsUA(data[j]) /\ PastDay(data[j], dir, dayEnd)]
  ELSE IF ~IsUA(data[i]) \/ PastDay(data[i], dir, dayEnd)
       THEN ScanPage_noBreak(data, i + 1, dir, dayEnd, acc)
       ELSE ScanPage_noBreak(data, i + 1, dir, dayEnd, Append(acc, data[i]))

\* The for loop over sched.data from entry i on; acc is allUAFlights.
RECURSIVE ScanPage(_, _, _, _, _)
ScanPage(data, i, dir, dayEnd, acc) ==
  IF i > Len(data) THEN [flights |-> acc, pastDay |-> FALSE]
  ELSE IF ~IsUA(data[i]) THEN ScanPage(data, i + 1, dir, dayEnd, acc)
  ELSE IF PastDay(data[i], dir, dayEnd) THEN [flights |-> acc, pastDay |-> TRUE]
  ELSE ScanPage(data, i + 1, dir, dayEnd, Append(acc, data[i]))

\* sched.page?.total || 1
TotalPagesOf(page) == IF page.total = 0 THEN 1 ELSE page.total

\* pagesScanned: Math.min(pageNum, totalPages, MAX_PAGES)
PagesScanned(pageNum, totalPages) == Min(Min(pageNum, totalPages), MAX_PAGES)

\* const dayEnd = ts + 86400
DayEnd(ts) == IF ts = NaN THEN NaN ELSE ts + DAY_SECONDS

AggKey_noDir(dir, ts) == <<"agg", "ORD", ts>>
\* `agg:${hub}:${dir}:${ts}`
AggKey(dir, ts) == <<"agg", "ORD", dir, ts>>

\* `sched:${hub}:${dir}:${ts}:${pageNum}`
SchedKey_noPage(dir, ts, pageNum) == <<"sched", "ORD", dir, ts>>
SchedKey(dir, ts, pageNum) == <<"sched", "ORD", dir, ts, pageNum>>

\* isOld ? 300000 : 60000, with isOld = (now - ts) > 86400
TtlFor(ts, now) ==
  IF ts # NaN /\ (now \div 1000) - ts > DAY_SECONDS THEN TTL_OLD ELSE TTL_RECENT

SMaxAge_recent(ttl) == TTL_RECENT \div 1000
\* `s-maxage=${Math.floor(ttl / 1000)}` of the Cache-Control header
SMaxAge(ttl) == ttl \div 1000

\* the result object built after the loop
Result(a) ==
  [flights |-> a.allUAFlights, total |-> Len(a.allUAFlights),
   totalFetched |-> a.totalFetched,
   pagesScanned |-> PagesScanned(a.pageNum, a.totalPages),
   totalPages |-> a.totalPages, cached |-> FALSE, hub |-> "ORD", dir |-> a.dir]

NoPage == [num |-> 0, data |-> << >>, flightsBefore |-> 0]
NoResponse == [status |-> 0, body |-> Null]
ErrorBody(msg) == [error |-> msg]
IdleAgg ==
  [pc |-> "idle", single |-> FALSE, dir |-> "departures", ts |-> 0, ttl |-> 0,
   pageNum |-> 0, totalPages |-> 0, allUAFlights |-> << >>, totalFetched |-> 0,
   caught |-> "", startedAt |-> 0, maxAge |-> 0]

\* history: a 200 response built from upstream data, and the data stored
\* for it at time `at`
Served(a, at, data) ==
  [single |-> a.single, dir |-> a.dir, ts |-> a.ts,
   page |-> IF a.single THEN a.pageNum ELSE 0, at |-> at, ttl |-> a.ttl,
   data |-> data]

\* The loop has ended: build the result, store it, answer 200.
AggFinish(a) ==
  /\ agg' = [a EXCEPT !.pc = "done", !.maxAge = SMaxAge(a.ttl)]
  /\ schedCache' = CacheSetOn(schedCache, AggKey(a.dir, a.ts), Result(a), a.ttl, clock)
  /\ response' = [status |-> 200, body |-> Result(a)]
  /\ served' = served \cup {Served(a, clock, Result(a))}
  /\ pc' = [pc EXCEPT ![Handler] = "idle"]
  /\ UNCHANGED <<lastFR24Request, callNow, wakeAt, dispatchAt, abortAt, ncalls, dispatches,
                 requested>>

\* Loop head with the locals a: either fetchOnePage(pageNum) is called and
\* the handler suspends inside rateLimitedFetch, or the loop is left.
AggLoop(a) ==
  IF a.pageNum <= a.totalPages /\ a.pageNum <= MAX_PAGES
  THEN /\ agg' = [a EXCEPT !.pc = "fetching"]
       /\ requested' = Append(requested, a.pageNum)
       /\ RLEnter(Handler)
       /\ UNCHANGED <<schedCache, response, served>>
  ELSE AggFinish(a)

\* A request in aggregation mode (hub and timestamp given, no page): cache
\* lookup, and on a miss the first iteration up to its first await.
AggStart(dir, ts) ==
  /\ proc = "schedule"
  /\ agg.pc = "idle"
  /\ pc[Handler] = "idle"
  /\ nreqs' = nreqs + 1
  /\ LET hit == CacheGetOn(schedCache, AggKey(dir, ts), clock)
         a == [pc |-> "fetching", single |-> FALSE, dir |-> dir, ts |-> ts,
               ttl |-> TtlFor(ts, clock),
               pageNum |-> 1, totalPages |-> 1, allUAFlights |-> << >>,
               totalFetched |-> 0,
               caught |-> "", startedAt |-> clock, maxAge |-> 0]
     IN IF hit.found
        THEN /\ schedCache' = hit.map
             /\ response' = [status |-> 200, body |-> [hit.val.data EXCEPT !.cached = TRUE]]
             /\ agg' = [IdleAgg EXCEPT !.pc = "done", !.dir = dir, !.ts = ts,
                                       !.ttl = a.ttl, !.startedAt = clock,
                                       !.maxAge = SMaxAge(a.ttl)]
             /\ requested' = << >>
             /\ lastPage' = NoPage
             /\ boundaryAt' = 0
             /\ pageLens' = << >>
             /\ UNCHANGED <<rlVars, served>>
        ELSE /\ schedCache' = hit.map
             /\ agg' = a
             /\ requested' = <<1>>
             /\ lastPage' = NoPage
             /\ boundaryAt' = 0
             /\ pageLens' = << >>
             /\ response' = NoResponse
             /\ RLEnter(Handler)
             /\ UNCHANGED served
  /\ UNCHANGED <<proc, parked, ftVars, clock, ftCache, cacheOps, limVars, ret>>

\* A request with a page parameter: cache lookup under the page's key, and
\* on a miss fetchOnePage up to its first await.
SingleStart(dir, ts, pageNum) ==
  /\ proc = "schedule"
  /\ agg.pc = "idle"
  /\ pc[Handler] = "idle"
  /\ nreqs' = nreqs + 1
  /\ LET hit == CacheGetOn(schedCache, SchedKey(dir, ts, pageNum), clock)
         a == [IdleAgg EXCEPT !.single = TRUE, !.dir = dir, !.ts = ts,
                              !.ttl = TtlFor(ts, clock), !.pageNum = pageNum,
                              !.startedAt = clock]
     IN /\ schedCache' = hit.map
        /\ lastPage' = NoPage
        /\ boundaryAt' = 0
        /\ pageLens' = << >>
        /\ UNCHANGED served
        /\ IF hit.found
           THEN /\ response' = [status |-> 200,
                                body |-> [sched |-> hit.val.data, cached |-> TRUE]]
                /\ agg' = [a EXCEPT !.pc = "done", !.maxAge = SMaxAge(a.ttl)]
                /\ requested' = << >>
                /\ UNCHANGED rlVars
           ELSE /\ response' = NoResponse
                /\ agg' = [a EXCEPT !.pc = "fetching"]
                /\ requested' = <<pageNum>>
                /\ RLEnter(Handler)
  /\ UNCHANGED <<proc, parked, ftVars, clock, ftCache, cacheOps, limVars, ret>>

SchedReq(hub, dir, timestamp, page) ==
  [hub |-> hub, dir |-> dir, timestamp |-> timestamp, page |-> page]
NoQuery == SchedReq(Absent, Absent, Absent, Absent)

\* the decimal digits of a natural number, as a client writes it in a query
RECURSIVE DecimalText(_)
DecimalText(n) ==
  IF n < 10 THEN <<DigitChars[n + 1]>>
  ELSE Append(DecimalText(n \div 10), DigitChars[(n % 10) + 1])

\* the query of an aggregation request for hub ORD
AggQuery(dir, ts) == SchedReq(Word("ORD"), Word(dir), Text(DecimalText(ts)), Absent)

\* dir = 'departures' when the parameter is absent
DirOf(req) == IF req.dir.kind = "absent" THEN "departures" ELSE req.dir.str

\* parseInt(page) || 1
PageNumOf(q) ==
  LET n == ParseInt(q.chars) IN IF n = NaN \/ n = 0 THEN 1 ELSE n

SchedReject_afterLimiter(msg) ==
  /\ proc = "schedule"
  /\ agg.pc = "idle"
  /\ pc[Handler] = "idle"
  /\ nreqs' = nreqs + 1
  /\ agg' = [IdleAgg EXCEPT !.pc = "done"]
  /\ response' = [status |-> 400, body |-> ErrorBody(msg)]
  /\ requested' = << >>
  /\ lastPage' = NoPage
  /\ boundaryAt' = 0
  /\ pageLens' = << >>
  /\ lastFR24Request' = clock
  /\ UNCHANGED <<proc, parked, ftVars, clock, pc, callNow, wakeAt, dispatchAt, abortAt, ncalls,
                 dispatches, cacheVars, limVars, ret, served>>
\* Validation failed: 400, before any cache or network work.
SchedReject(msg) ==
  /\ proc = "schedule"
  /\ agg.pc = "idle"
  /\ pc[Handler] = "idle"
  /\ nreqs' = nreqs + 1
  /\ agg' = [IdleAgg EXCEPT !.pc = "done"]
  /\ response' = [status |-> 400, body |-> ErrorBody(msg)]
  /\ requested' = << >>
  /\ lastPage' = NoPage
  /\ boundaryAt' = 0
  /\ pageLens' = << >>
  /\ UNCHANGED <<proc, parked, ftVars, clock, rlVars, cacheVars, limVars, ret, served>>

\* handler(req, res) up to its first await or its early return.
SchedRequest(req) ==
  /\ query' = req
  /\ IF ~Truthy(req.hub) \/ ~Truthy(req.timestamp)
     THEN SchedReject("Missing required params: hub, timestamp")
     ELSE IF DirOf(req) \notin Dirs
     THEN SchedReject("dir must be departures or arrivals")
     ELSE IF req.page.kind # "absent"
     THEN SingleStart(DirOf(req), ParseInt(req.timestamp.chars), PageNumOf(req.page))
     ELSE AggStart(DirOf(req), ParseInt(req.timestamp.chars))

\* The response has been sent and the invocation is over; after a delay of d
\* the handler is ready for the next request.
SchedReturn(d) ==
  /\ agg.pc = "done"
  /\ nreqs < MaxRequests
  /\ agg' = IdleAgg
  /\ requested' = << >>
  /\ lastPage' = NoPage
  /\ boundaryAt' = 0
  /\ pageLens' = << >>
  /\ response' = NoResponse
  /\ query' = NoQuery
  /\ clock' = clock + d
  /\ UNCHANGED <<proc, parked, ftVars, rlVars, cacheVars, limVars, ret, nreqs, served>>

\* rateLimitedFetch returns the response (its abort timer is cleared);
\* fetchOnePage throws on a status that is not ok and otherwise awaits
\* resp.json().
AggHeaders(ok) ==
  /\ agg.pc = "fetching"
  /\ pc[Handler] = "fetching"
  /\ RLReturn(Handler)
  /\ IF ok
     THEN agg' = [agg EXCEPT !.pc = "reading"] /\ UNCHANGED response
     ELSE /\ agg' = [agg EXCEPT !.pc = "done"]
          /\ response' = [status |-> 500, body |-> ErrorBody("FR24 returned status")]
  /\ UNCHANGED <<proc, parked, ftVars, clock, cacheVars, limVars, ret, requested, lastPage,
                 boundaryAt, pageLens, nreqs, served, query>>

\* resp.json() has delivered a body with schedule data, in aggregation mode:
\* the rest of the iteration, then the loop head.
AggPage(page) ==
  /\ agg.pc = "reading"
  /\ ~agg.single
  /\ LET a1 == [agg EXCEPT !.totalPages = TotalPagesOf(page)]
         scan == ScanPage(page.data, 1, agg.dir, DayEnd(agg.ts), agg.allUAFlights)
         a2 == [a1 EXCEPT !.allUAFlights = scan.flights,
                          !.totalFetched = @ + Len(page.data)]
     IN IF Len(page.data) = 0 THEN AggFinish(a1)
        ELSE IF scan.pastDay THEN AggFinish(a2)
        ELSE AggLoop([a2 EXCEPT !.pageNum = @ + 1])
  /\ lastPage' = IF agg'.pc = "done"
                 THEN [num |-> agg.pageNum, data |-> page.data,
                       flightsBefore |-> Len(agg.allUAFlights)]
                 ELSE NoPage
  /\ boundaryAt' = IF boundaryAt = 0 /\ HasBoundary(page.data, agg.dir, DayEnd(agg.ts))
                   THEN agg.pageNum ELSE boundaryAt
  /\ pageLens' = Append(pageLens, Len(page.data))
  /\ UNCHANGED <<proc, parked, ftVars, clock, ftCache, cacheOps, limVars, ret, nreqs, query>>

\* resp.json() has delivered a body with schedule data, in single-page mode:
\* the page is stored and returned as it came.
SinglePage(page) ==
  /\ agg.pc = "reading"
  /\ agg.single
  /\ agg' = [agg EXCEPT !.pc = "done", !.maxAge = SMaxAge(agg.ttl)]
  /\ schedCache' = CacheSetOn(schedCache, SchedKey(agg.dir, agg.ts, agg.pageNum),
                              page, agg.ttl, clock)
  /\ response' = [status |-> 200, body |-> [sched |-> page, cached |-> FALSE]]
  /\ served' = served \cup {Served(agg, clock, page)}
  /\ pageLens' = Append(pageLens, Len(page.data))
  /\ lastPage' = [num |-> agg.pageNum, data |-> page.data, flightsBefore |-> 0]
  /\ UNCHANGED <<proc, parked, ftVars, clock, rlVars, ftCache, cacheOps, limVars, ret,
                 requested, boundaryAt, nreqs, query>>

CatchStatus_always500(name) == 500
\* the catch block of the schedule handler: 504 for an AbortError, 500 for
\* everything else
CatchStatus(name) == IF name = "AbortError" THEN 504 ELSE 500

\* The awaited fetch rejects: with an AbortError once the abort timer, armed
\* at the dispatch, has fired, or with a network error. The catch block
\* answers 504 for an AbortError and 500 otherwise.
AggFail(name) ==
  /\ agg.pc = "fetching"
  /\ pc[Handler] = "fetching"
  /\ clock' = IF name = "AbortError"
              THEN Max(clock, abortAt[Handler])
              ELSE clock
  /\ agg' = [agg EXCEPT !.pc = "done", !.caught = name]
  /\ response' = [status |-> CatchStatus(name),
                  body |-> ErrorBody(IF name = "AbortError" THEN "FR24 timeout" ELSE name)]
  /\ RLReturn(Handler)
  /\ UNCHANGED <<proc, parked, ftVars, cacheVars, limVars, ret, requested, lastPage,
                 boundaryAt, pageLens, nreqs, served, query>>

AggBodyFail_storePartial(name) ==
  /\ agg.pc = "reading"
  /\ agg' = [agg EXCEPT !.pc = "done"]
  /\ response' = [status |-> 500, body |-> ErrorBody(name)]
  /\ schedCache' = CacheSetOn(schedCache, AggKey(agg.dir, agg.ts), Result(agg), agg.ttl, clock)
  /\ UNCHANGED <<proc, parked, ftVars, clock, rlVars, ftCache, cacheOps, limVars, ret, requested,
                 lastPage, boundaryAt, pageLens, nreqs, served, query>>
\* resp.json() rejects, or the body holds no schedule for the direction:
\* fetchOnePage throws an Error and the catch block answers 500.
AggBodyFail(name) ==
  /\ agg.pc = "reading"
  /\ agg' = [agg EXCEPT !.pc = "done"]
  /\ response' = [status |-> 500, body |-> ErrorBody(name)]
  /\ UNCHANGED <<proc, parked, ftVars, clock, rlVars, cacheVars, limVars, ret, requested,
                 lastPage, boundaryAt, pageLens, nreqs, served, query>>

\* The handler's rate-limit timer fires.
AggWake == agg.pc = "fetching" /\ RLWake(Handler)

\* Time passes while the request is in flight.
AggTick == agg.pc = "fetching" /\ Tick(AggTimes)

\* Time passes until the handler's rate-limit timer is due.
AggSleep ==
  /\ agg.pc = "fetching"
  /\ pc[Handler] = "sleeping"
  /\ clock < wakeAt[Handler]
  /\ clock' = wakeAt[Handler]
  /\ UNCHANGED <<proc, parked, ftVars, rlVars, cacheVars, limVars, ret, aggVars>>

\* ------------------------------------------ flight-times handler (FlightAware)
LowerChars == <<"a", "b", "c", "d", "e", "f", "g", "h", "i", "j", "k", "l", "m",
                "n", "o", "p", "q", "r", "s", "t", "u", "v", "w", "x", "y", "z">>
UpperChars == <<"A", "B", "C", "D", "E", "F", "G", "H", "I", "J", "K", "L", "M",
                "N", "O", "P", "Q", "R", "S", "T", "U", "V", "W", "X", "Y", "Z">>
IsLower(c) == \E i \in 1..26 : LowerChars[i] = c
IsUpper(c) == \E i \in 1..26 : UpperChars[i] = c

\* String.prototype.toUpperCase, character by character
UpperChar(c) ==
  IF IsLower(c) THEN UpperChars[CHOOSE i \in 1..26 : LowerChars[i] = c] ELSE c
ToUpperCase(t) == [i \in 1..Len(t) |-> UpperChar(t[i])]

\* .replace(/\s+/g, '') (which also covers .trim())
StripSpaces(t) == SelectSeq(t, LAMBDA c : ~IsSpace(c))

StartsWith(t, prefix) ==
  Len(t) >= Len(prefix) /\ SubSeq(t, 1, Len(prefix)) = prefix

AllDigits(t) == \A i \in 1..Len(t) : IsDigit(t[i])

\* (raw || '').trim: an array has no trim method, the call throws a
\* TypeError
NormalizeThrows(raw) == Truthy(raw) /\ raw.kind = "array"

NormalizeFlightNumber_everyUA(raw) ==
  LET q0 == IF Truthy(raw) THEN StripSpaces(ToUpperCase(raw.chars)) ELSE << >>
      q1 == IF StartsWith(q0, <<"U", "A">>)
            THEN <<"U", "A", "L">> \o SubSeq(q0, 3, Len(q0))
            ELSE q0
  IN IF Len(q1) \in 1..4 /\ AllDigits(q1) THEN <<"U", "A", "L">> \o q1 ELSE q1
\* normalizeFlightNumber(raw), raw a string or a falsy value
NormalizeFlightNumber(raw) ==
  LET q0 == IF Truthy(raw) THEN StripSpaces(ToUpperCase(raw.chars)) ELSE << >>
      q1 == IF StartsWith(q0, <<"U", "A">>) /\ ~StartsWith(q0, <<"U", "A", "L">>)
            THEN <<"U", "A", "L">> \o SubSeq(q0, 3, Len(q0))
            ELSE q0
  IN IF Len(q1) \in 1..4 /\ AllDigits(q1) THEN <<"U", "A", "L">> \o q1 ELSE q1

\* /^UAL\d{1,4}[A-Z]?$/i
ValidFlight(t) ==
  /\ StartsWith(ToUpperCase(t), <<"U", "A", "L">>)
  /\ LET rest == SubSeq(t, 4, Len(t))
         body == IF Len(rest) > 0 /\ (IsUpper(rest[Len(rest)]) \/ IsLower(rest[Len(rest)]))
                 THEN SubSeq(rest, 1, Len(rest) - 1)
                 ELSE rest
     IN Len(body) \in 1..4 /\ AllDigits(body)

\* what a call came to: a returned value, or the name of the error thrown
Returned(v) == [threw |-> FALSE, value |-> v]
Thrown(name) == [threw |-> TRUE, value |-> name]

\* a call of normalizeFlightNumber(raw), the one call that is observed
CallNormalize(raw) ==
  /\ proc = "flight-times"
  /\ ret.op = "none"
  /\ ret' = Ret("normalizeFlightNumber", raw, FALSE,
                IF NormalizeThrows(raw) THEN Thrown("TypeError")
                ELSE Returned(NormalizeFlightNumber(raw)), FALSE)
  /\ UNCHANGED <<proc, parked, clock, rlVars, cacheVars, limVars, aggVars, ftVars>>

\* `fa:${flight}`
FtKey(flight) == <<"fa", flight>>

\* the limiter check on the map m: its verdict and the map it leaves
IsRateLimitedOn(m, req, now) ==
  LET ip == GetClientIp(req)
      ipLog == IF ip \in DOMAIN m THEN m[ip] ELSE << >>
  IN [ip |-> ip,
      limited |-> OverQuota(PruneLog(ipLog, now)),
      map |-> [i \in DOMAIN m \cup {ip} |->
                 IF i = ip THEN LogAfterCheck(ipLog, now) ELSE m[i]]]

\* ------------------------------------------------------------ epochToISO
\* a JSON number, next to Absent (undefined) and NullValue
Num(n) == [kind |-> "number", n |-> n]

\* left-pads the decimal digits t with zeros to the given width
RECURSIVE PadStart(_, _)
PadStart(t, width) == IF Len(t) >= width THEN t ELSE PadStart(<<"0">> \o t, width)

\* the calendar date of the day that lies `days` days after 1970-01-01
\* (proleptic Gregorian calendar, as Date uses it)
CivilFromDays(days) ==
  LET z == days + 719468
      era == z \div 146097
      doe == z - era * 146097
      yoe == (doe - doe \div 1460 + doe \div 36524 - doe \div 146096) \div 365
      doy == doe - (365 * yoe + yoe \div 4 - yoe \div 100)
      mp == (5 * doy + 2) \div 153
      m == IF mp < 10 THEN mp + 3 ELSE mp - 9
  IN [year |-> yoe + era * 400 + (IF m <= 2 THEN 1 ELSE 0),
      month |-> m,
      day |-> doy - (153 * mp + 2) \div 5 + 1]

\* new Date(secs * 1000).toISOString() for a whole number of seconds whose
\* year has four digits: YYYY-MM-DDTHH:mm:ss.sssZ
ToISOString(secs) ==
  LET date == CivilFromDays(secs \div 86400)
      rest == secs % 86400
      two(n) == PadStart(DecimalText(n), 2)
  IN PadStart(DecimalText(date.year), 4) \o <<"-">> \o two(date.month) \o <<"-">>
       \o two(date.day) \o <<"T">> \o two(rest \div 3600) \o <<":">>
       \o two((rest % 3600) \div 60) \o <<":">> \o two(rest % 60)
       \o <<".", "0", "0", "0", "Z">>

\* !epoch for undefined, null and 0
EpochFalsy_zeroIsTime(epoch) == epoch.kind # "number"
EpochFalsy(epoch) == epoch.kind # "number" \/ epoch.n = 0

\* epochToISO(epoch)
EpochToISO(epoch) == IF EpochFalsy(epoch) THEN << >> ELSE ToISOString(epoch.n)

\* a call of epochToISO(epoch), the one call that is observed
CallEpochToISO(epoch) ==
  /\ proc = "flight-times"
  /\ ret.op = "none"
  /\ ret' = Ret("epochToISO", epoch, FALSE, Returned(EpochToISO(epoch)), FALSE)
  /\ UNCHANGED <<proc, parked, clock, rlVars, cacheVars, limVars, aggVars, ftVars>>

\* An entry of activityLog.flights: an identity and its
\* gateDepartureTimes.scheduled (0 when missing).
\* The twelve epochs of an entry: gateDepartureTimes, takeoffTimes,
\* landingTimes and gateArrivalTimes, each scheduled, estimated and actual.
TimeGroups == {"gateDepartureTimes", "takeoffTimes", "landingTimes", "gateArrivalTimes"}
TimeVariants == {"scheduled", "estimated", "actual"}
TimeFields == TimeGroups \X TimeVariants
GateDepartureScheduled == <<"gateDepartureTimes", "scheduled">>

\* an entry with the given epochs; scheduled is the value the selection
\* compares, 0 when gateDepartureTimes?.scheduled is falsy
LogFlightWith(id, times) ==
  [id |-> id,
   scheduled |-> IF EpochFalsy(times[GateDepartureScheduled]) THEN 0
                 ELSE times[GateDepartureScheduled].n,
   times |-> times]

\* an entry that has at most its scheduled gate departure
LogFlight(id, scheduled) ==
  LogFlightWith(id, [fld \in TimeFields |->
                       IF fld = GateDepartureScheduled /\ scheduled # 0
                       THEN Num(scheduled) ELSE Absent])
NoFlight == LogFlight(0, 0)

RECURSIVE BestFlight_lastWins(_, _, _)
BestFlight_lastWins(flights, i, best) ==
  IF i > Len(flights) THEN best
  ELSE IF Len(flights[i]) = 0 THEN BestFlight_lastWins(flights, i + 1, best)
  ELSE LET f == flights[i][1] IN
       IF \/ best = NoFlight
          \/ /\ f.scheduled # 0
             /\ (best.scheduled = 0 \/ f.scheduled >= best.scheduled)
       THEN BestFlight_lastWins(flights, i + 1, f)
       ELSE BestFlight_lastWins(flights, i + 1, best)
\* The loop over Object.entries(flights) from entry i on; best is bestFlight.
RECURSIVE BestFlight(_, _, _)
BestFlight(flights, i, best) ==
  IF i > Len(flights) THEN best
  ELSE IF Len(flights[i]) = 0 THEN BestFlight(flights, i + 1, best)
  ELSE LET f == flights[i][1] IN
       IF \/ best = NoFlight
          \/ /\ f.scheduled # 0
             /\ (best.scheduled = 0 \/ f.scheduled > best.scheduled)
       THEN BestFlight(flights, i + 1, f)
       ELSE BestFlight(flights, i + 1, best)

\* What resp.text() delivers: whether the page embeds the trackpollBootstrap
\* blob ("none": no match, "bad": JSON.parse throws) and the activity logs
\* of bootstrap.flights in key order.
Html(blob, flights) == [blob |-> blob, flights |-> flights]
Htmls ==
  { Html("none", << >>), Html("bad", << >>), Html("ok", << >>),
    Html("ok", << << >> >>),
    Html("ok", << <<LogFlight(1, 0)>> >>),
    Html("ok", << << >>, <<LogFlight(1, 50)>>, <<LogFlight(2, 70), LogFlight(3, 90)>> >>) }

\* the result object of a successful extraction
\* flight.replace('UAL', 'UA'): the first occurrence only
ReplaceUAL(t) ==
  LET at == {i \in 1..(Len(t) - 2) : SubSeq(t, i, i + 2) = <<"U", "A", "L">>}
  IN IF at = {} THEN t
     ELSE LET i == CHOOSE j \in at : \A k \in at : j <= k
          IN SubSeq(t, 1, i - 1) \o <<"U", "A">> \o SubSeq(t, i + 3, Len(t))

\* the result object of a successful extraction: best is the selected entry
\* (history), times the twelve converted timestamps
FtResult_servedFromCache(flight, f) ==
  [success |-> TRUE, flight |-> ReplaceUAL(flight), best |-> f,
   times |-> [fld \in TimeFields |-> EpochToISO(f.times[fld])],
   source |-> "flightaware", cached |-> TRUE]
FtResult(flight, f) ==
  [success |-> TRUE, flight |-> ReplaceUAL(flight), best |-> f,
   times |-> [fld \in TimeFields |-> EpochToISO(f.times[fld])],
   source |-> "flightaware", cached |-> FALSE]

FtError(status, msg) == [status |-> status, body |-> [success |-> FALSE, error |-> msg]]

\* 'https://theblueboard.co'
ALLOWED_ORIGIN ==
  <<"h", "t", "t", "p", "s", ":", "/", "/", "t", "h", "e", "b", "l", "u", "e", "b", "o",
    "a", "r", "d", ".", "c", "o">>
\* 'http://localhost'
LOCALHOST ==
  <<"h", "t", "t", "p", ":", "/", "/", "l", "o", "c", "a", "l", "h", "o", "s", "t">>

\* /^http:\/\/localhost(:\d+)?$/.test(origin)
IsLocalhostOrigin(o) ==
  /\ StartsWith(o, LOCALHOST)
  /\ LET rest == SubSeq(o, Len(LOCALHOST) + 1, Len(o))
     IN \/ rest = << >>
        \/ /\ Len(rest) >= 2
           /\ rest[1] = ":"
           /\ AllDigits(SubSeq(rest, 2, Len(rest)))

\* req.headers?.origin || ''
OriginOf(req) == IF Truthy(req.origin) THEN req.origin.chars ELSE << >>

AllowOrigin_echo(req) == OriginOf(req)
\* corsHeaders(req)['Access-Control-Allow-Origin']
AllowOrigin(req) ==
  LET origin == OriginOf(req)
      allowed == origin = ALLOWED_ORIGIN \/ IsLocalhostOrigin(origin)
  IN IF allowed THEN origin ELSE ALLOWED_ORIGIN

\* method, origin: history, the request being served
\* allowOrigin: the Access-Control-Allow-Origin header set on the response
\* logged: what the catch block passed to console.error
\* got: history, what the upstream call of the request came to
NothingYet == [kind |-> "none"]
IdleFt ==
  [pc |-> "idle", method |-> "", origin |-> Absent, allowOrigin |-> << >>,
   flight |-> << >>, ip |-> "", startedAt |-> 0, abortAt |-> 0,
   logged |-> "", got |-> NothingYet]

LimiterConsulted_always(hit) == TRUE
\* if (cached) return ...; comes before if (isRateLimited(req)): the limiter
\* is reached only when getCached returned null
LimiterConsulted(hit) == ~hit.found

\* handler(req, res) up to its first await or its early return.
FtStart(req) ==
  /\ proc = "flight-times"
  /\ ft.pc = "idle"
  /\ nreqs' = nreqs + 1
  /\ LET flight == NormalizeFlightNumber(req.flight)
         hit == GetCachedOn(ftCache, FtKey(flight), clock)
         lim == IsRateLimitedOn(rateLimitByIp, req, clock)
         begun == [IdleFt EXCEPT !.method = req.method, !.origin = req.origin,
                                 !.allowOrigin = AllowOrigin(req)]
         reject(resp) ==
           /\ ftResponse' = resp
           /\ ft' = [begun EXCEPT !.pc = "done"]
           /\ UNCHANGED <<ftCache, rateLimitByIp, allowedLog>>
     IN IF req.method = "OPTIONS" THEN reject([status |-> 204, body |-> Null])
        ELSE IF req.method # "GET" THEN reject([status |-> 405, body |-> ErrorBody("Method not allowed")])
        ELSE IF ~Truthy(req.flight) THEN reject(FtError(400, "Missing flight parameter"))
        ELSE IF NormalizeThrows(req.flight)
        THEN /\ ftResponse' = [status |-> 500, body |-> Null]
             /\ ft' = [begun EXCEPT !.pc = "done", !.logged = "uncaught TypeError"]
             /\ UNCHANGED <<ftCache, rateLimitByIp, allowedLog>>
        ELSE IF ~ValidFlight(flight) THEN reject(FtError(400, "Invalid flight number"))
        ELSE /\ ftCache' = hit.map
             /\ rateLimitByIp' = IF LimiterConsulted(hit) THEN lim.map ELSE rateLimitByIp
             /\ allowedLog' = IF LimiterConsulted(hit) /\ ~lim.limited
                              THEN [allowedLog EXCEPT ![lim.ip] = Append(@, clock)]
                              ELSE allowedLog
             /\ IF LimiterConsulted(hit) /\ lim.limited
                THEN /\ ftResponse' = FtError(429, "Rate limited")
                     /\ ft' = [begun EXCEPT !.pc = "done", !.flight = flight, !.ip = lim.ip]
                ELSE IF hit.found
                THEN /\ ftResponse' = [status |-> 200,
                                       body |-> [hit.val EXCEPT !.cached = TRUE]]
                     /\ ft' = [begun EXCEPT !.pc = "done", !.flight = flight, !.ip = lim.ip]
                ELSE /\ ftResponse' = NoResponse
                     /\ ft' = [begun EXCEPT !.pc = "fetching", !.flight = flight,
                                             !.ip = lim.ip, !.startedAt = clock,
                                             !.abortAt = clock + FT_FETCH_TIMEOUT_MS]
  /\ UNCHANGED <<proc, parked, clock, rlVars, schedCache, cacheOps, nchecks, ret, agg, requested,
                 lastPage, boundaryAt, pageLens, response, served, query>>

\* fetch resolves with the response (the abort timer is cleared): 502 on a
\* status that is not ok, otherwise the handler awaits resp.text().
FtHeaders(ok) ==
  /\ ft.pc = "fetching"
  /\ IF ok
     THEN ft' = [ft EXCEPT !.pc = "reading", !.abortAt = 0] /\ UNCHANGED ftResponse
     ELSE /\ ft' = [ft EXCEPT !.pc = "done", !.abortAt = 0,
                              !.got = [kind |-> "status not ok"]]
          /\ ftResponse' = FtError(502, "FlightAware unavailable")
  /\ UNCHANGED <<proc, parked, clock, rlVars, cacheVars, limVars, ret, aggVars>>

ExtractStatus_parse404(html) ==
  IF html.blob = "ok" /\ BestFlight(html.flights, 1, NoFlight) # NoFlight THEN 200 ELSE 404
\* the status the extraction ends with: 404 without the blob, 502 when
\* JSON.parse throws, 404 without a candidate, otherwise 200
ExtractStatus(html) ==
  IF html.blob = "none" THEN 404
  ELSE IF html.blob = "bad" THEN 502
  ELSE IF BestFlight(html.flights, 1, NoFlight) = NoFlight THEN 404
  ELSE 200

ExtractError(html) ==
  IF html.blob = "none" THEN "No flight data found"
  ELSE IF html.blob = "bad" THEN "Failed to parse flight data"
  ELSE "No active flight found"

\* resp.text() has delivered the page: extraction, and on success the result
\* is stored and returned.
FtBody(html) ==
  /\ ft.pc = "reading"
  /\ ft' = [ft EXCEPT !.pc = "done", !.got = [kind |-> "html", html |-> html]]
  /\ LET result == FtResult(ft.flight, BestFlight(html.flights, 1, NoFlight))
     IN IF ExtractStatus(html) # 200
        THEN /\ ftResponse' = FtError(ExtractStatus(html), ExtractError(html))
             /\ UNCHANGED ftCache
        ELSE /\ ftCache' = SetCacheOn(ftCache, FtKey(ft.flight), result, clock)
             /\ ftResponse' = [status |-> 200, body |-> result]
  /\ UNCHANGED <<proc, parked, clock, rlVars, schedCache, cacheOps, limVars, ret, aggVars>>

\* The awaited fetch rejects: with an AbortError once the abort timer has
\* fired (504), or with a network error (502).
FtFail(name) ==
  /\ ft.pc = "fetching"
  /\ clock' = IF name = "AbortError"
              THEN Max(clock, ft.abortAt)
              ELSE clock
  /\ ft' = [ft EXCEPT !.pc = "done",
                      !.abortAt = IF name = "AbortError" THEN 0 ELSE @,
                      !.logged = IF name = "AbortError" THEN "" ELSE "fetch failed",
                      !.got = [kind |-> name]]
  /\ ftResponse' = IF name = "AbortError" THEN FtError(504, "Timeout")
                   ELSE FtError(502, "FlightAware unavailable")
  /\ UNCHANGED <<proc, parked, rlVars, cacheVars, limVars, ret, aggVars>>

FtBodyFail_refund ==
  /\ ft.pc = "reading"
  /\ ft' = [ft EXCEPT !.pc = "done", !.logged = "terminated",
                      !.got = [kind |-> "body read failed"]]
  /\ ftResponse' = FtError(502, "FlightAware unavailable")
  /\ rateLimitByIp' = [rateLimitByIp EXCEPT ![ft.ip] = SubSeq(@, 1, Len(@) - 1)]
  /\ UNCHANGED <<proc, parked, clock, rlVars, cacheVars, allowedLog, nchecks, ret, aggVars>>
\* resp.text() rejects: the catch block answers 502.
FtBodyFail ==
  /\ ft.pc = "reading"
  /\ ft' = [ft EXCEPT !.pc = "done", !.logged = "terminated",
                      !.got = [kind |-> "body read failed"]]
  /\ ftResponse' = FtError(502, "FlightAware unavailable")
  /\ UNCHANGED <<proc, parked, clock, rlVars, cacheVars, limVars, ret, aggVars>>

\* The response has been sent and the invocation is over; after a delay of d
\* the handler is ready for the next request.
FtReturn(d) ==
  /\ ft.pc = "done"
  /\ nreqs < MaxRequests
  /\ ft' = IdleFt
  /\ ftResponse' = NoResponse
  /\ clock' = clock + d
  /\ UNCHANGED <<proc, parked, rlVars, cacheVars, limVars, ret, aggVars>>

\* the locals and the response of one invocation of either handler
Invocation(f, fr, q, a, req, lp, ba, pl, r) ==
  [ft |-> f, ftResponse |-> fr, query |-> q, agg |-> a, requested |-> req,
   lastPage |-> lp, boundaryAt |-> ba, pageLens |-> pl, response |-> r]

NoInvocation ==
  Invocation(IdleFt, NoResponse, NoQuery, IdleAgg, << >>, NoPage, 0, << >>, NoResponse)

\* Two invocations of a handler are in flight in one process. The event
\* loop runs one of them from an await to its next await; here the running
\* invocation is suspended at its await and the other one is resumed. The
\* two invocations are the first two callers of rateLimitedFetch.
Peer == Handler + 1
Swapped(f) ==
  [c \in DOMAIN f |-> IF c = Handler THEN f[Peer] ELSE IF c = Peer THEN f[Handler] ELSE f[c]]
Switch ==
  /\ parked' = Invocation(ft, ftResponse, query, agg, requested, lastPage, boundaryAt,
                          pageLens, response)
  /\ ft' = parked.ft
  /\ ftResponse' = parked.ftResponse
  /\ query' = parked.query
  /\ agg' = parked.agg
  /\ requested' = parked.requested
  /\ lastPage' = parked.lastPage
  /\ boundaryAt' = parked.boundaryAt
  /\ pageLens' = parked.pageLens
  /\ response' = parked.response
  /\ pc' = Swapped(pc)
  /\ callNow' = Swapped(callNow)
  /\ wakeAt' = Swapped(wakeAt)
  /\ dispatchAt' = Swapped(dispatchAt)
  /\ abortAt' = Swapped(abortAt)
  /\ UNCHANGED <<proc, clock, lastFR24Request, ncalls, dispatches, cacheVars, limVars,
                 ret, nreqs, served>>

\* ------------------------------------------------------------ request inputs
SchedRequests ==
  { SchedReq(Word("ORD"), Absent, Text(<<"1", "0", "0">>), Absent),
    SchedReq(Word("ORD"), Word("arrivals"), Text(<<"1", "0", "0">>), Absent),
    SchedReq(Word("ORD"), Word("departures"), Text(<<" ", "1", "0", "0", "x">>), Absent),
    SchedReq(Word("ORD"), Absent, Text(<<"a", "b", "c">>), Absent),
    SchedReq(Absent, Absent, Text(<<"1", "0", "0">>), Absent),
    SchedReq(Word(""), Absent, Text(<<"1", "0", "0">>), Absent),
    SchedReq(Word("ORD"), Absent, Absent, Absent),
    SchedReq(Word("ORD"), Absent, Text(<< >>), Absent),
    SchedReq(Word("ORD"), Word("sideways"), Text(<<"1", "0", "0">>), Absent),
    SchedReq(Word("ORD"), Word(""), Text(<<"1", "0", "0">>), Absent),
    SchedReq(Word("ORD"), Absent, Text(<<"1", "0", "0">>), Text(<<"2">>)),
    SchedReq(Word("ORD"), Absent, Text(<<"1", "0", "0">>), Text(<<"x">>)) }

\* pages of the upstream in the request runs
ApiPages ==
  [total : {0, 2},
   data : {<< >>, <<Entry(TRUE, "UA", 0, 0)>>}]

FtReq(method, flight, xff, realIp) ==
  [method |-> method, flight |-> flight, xff |-> xff, realIp |-> realIp,
   origin |-> Absent]

FromA == Str(<<Part(FALSE, "a")>>)

FtRequests ==
  { FtReq("GET", Text(<<"u", "a", "1", "2">>), FromA, ""),
    FtReq("GET", Text(<<"U", "A", "L", "1", "2">>), Absent, ""),
    FtReq("GET", Text(<<" ", "3", "4", " ">>), FromA, ""),
    FtReq("GET", Text(<<"d", "l", "1", "2">>), FromA, ""),
    FtReq("GET", Text(<<"U", "A", "1", "2", "3", "4", "5">>), FromA, ""),
    FtReq("GET", Absent, FromA, ""),
    FtReq("GET", Text(<< >>), FromA, ""),
    FtReq("OPTIONS", Text(<<"u", "a", "1", "2">>), FromA, ""),
    FtReq("POST", Text(<<"u", "a", "1", "2">>), FromA, "") }

\* delays between a response and the next request
SchedDelays == {0, TTL_RECENT, TTL_RECENT + 1}
FtDelays == {0, RATE_WINDOW_MS + 1, CACHE_TTL_MS, CACHE_TTL_MS + 1}

\* ------------------------------------------------------------------- init
RLFresh ==
  /\ pc = [c \in Callers |-> "idle"]
  /\ callNow = [c \in Callers |-> 0]
  /\ wakeAt = [c \in Callers |-> 0]
  /\ dispatchAt = [c \in Callers |-> 0]
  /\ abortAt = [c \in Callers |-> 0]
  /\ ncalls = 0
  /\ dispatches = IF lastFR24Request = 0 THEN <<>> ELSE <<lastFR24Request>>

CacheFresh ==
  /\ cacheOps = 0
  /\ ret = Ret("none", 0, FALSE, Null, FALSE)

LimFresh ==
  /\ rateLimitByIp = [i \in {} |-> << >>]
  /\ allowedLog = [ip \in Ips |-> << >>]
  /\ nchecks = 0

AggFresh ==
  /\ query = NoQuery
  /\ agg = IdleAgg
  /\ requested = << >>
  /\ lastPage = NoPage
  /\ boundaryAt = 0
  /\ pageLens = << >>
  /\ response = NoResponse
  /\ nreqs = 0
  /\ served = {}

FtFresh ==
  /\ ft = IdleFt
  /\ ftResponse = NoResponse
  /\ parked = NoInvocation

\* Each of the two API modules is a serverless function of its own, with its
\* own module-level state; a process runs one of them.
Procs == {"schedule", "flight-times"}

\* A process that has just started.
Fresh ==
  /\ clock = StartTime
  /\ lastFR24Request = 0
  /\ RLFresh
  /\ schedCache = << >> /\ ftCache = << >>
  /\ CacheFresh
  /\ LimFresh
  /\ AggFresh
  /\ FtFresh

Init == proc = "schedule" /\ Fresh

InitLim == proc = "flight-times" /\ Fresh

\* lastFR24Request is 0 in a fresh process, or the time of an earlier
\* dispatch.
InitRL ==
  /\ proc = "schedule"
  /\ clock = StartTime
  /\ lastFR24Request \in {0, StartTime - 2 * RLStep, StartTime}
  /\ RLFresh
  /\ schedCache = << >> /\ ftCache = << >>
  /\ CacheFresh
  /\ LimFresh
  /\ AggFresh
  /\ FtFresh

\* The process's cache is empty, or holds the entries of earlier requests.
InitCache ==
  /\ proc \in Procs
  /\ clock = StartTime
  /\ lastFR24Request = 0
  /\ RLFresh
  /\ \E n \in {0, MAX_CACHE_SIZE - PrefillGap} :
       /\ schedCache = IF proc = "schedule" THEN WarmSched(n) ELSE << >>
       /\ ftCache = IF proc = "flight-times" THEN WarmFt(n) ELSE << >>
  /\ CacheFresh
  /\ LimFresh
  /\ AggFresh
  /\ FtFresh

\* A process that has served requests before: the flight-times cache holds a
\* result stored at StartTime, and one client has used up its quota.
WarmLog == [i \in 1..RATE_MAX |-> StartTime - (RATE_MAX - i) * 10000]
WarmFlight == <<"U", "A", "L", "1", "2">>

InitApi ==
  /\ proc \in Procs
  /\ clock = StartTime
  /\ lastFR24Request = 0
  /\ RLFresh
  /\ schedCache = << >>
  /\ ftCache \in {<< >>} \cup
       {SetCacheOn(<< >>, FtKey(WarmFlight), FtResult(WarmFlight, LogFlight(1, 50)),
                   StartTime) : x \in {n \in {1} : proc = "flight-times"}}
  /\ CacheFresh
  /\ rateLimitByIp \in {[i \in {} |-> << >>]} \cup
       {[i \in {"a"} |-> WarmLog] : x \in {n \in {1} : proc = "flight-times"}}
  /\ allowedLog = [ip \in Ips |-> IF ip \in DOMAIN rateLimitByIp
                                  THEN rateLimitByIp[ip] ELSE << >>]
  /\ nchecks = 0
  /\ AggFresh
  /\ FtFresh

\* --------------------------------------------------------- specifications
NextRL ==
  \/ \E c \in Callers : RLCall(c)
  \/ \E c \in Callers : RLWake(c)
  \/ \E c \in Callers : RLFetchDone(c)
  \/ Tick(RLTimes)

SpecRL == InitRL /\ [][NextRL]_vars

NextCache ==
  \/ \E k \in CacheKeys : CacheGet(k)
  \/ \E k \in CacheKeys, in \in SchedInputs : CacheSet(k, in.data, in.ttl)
  \/ \E k \in CacheKeys : GetCached(k)
  \/ \E k \in CacheKeys, d \in Data : SetCache(k, d)
  \/ Tick(CacheTimes)

SpecCache == InitCache /\ [][NextCache]_vars

NextLim ==
  \/ \E r \in Requests : IsRateLimited(r)
  \/ Tick(LimTimes)

SpecLim == InitLim /\ [][NextLim]_vars

NextAgg ==
  \/ \E d \in Dirs, ts \in TsInputs : SchedRequest(AggQuery(d, ts))
  \/ \E p \in Pages(agg.ts) : AggPage(p)
  \/ \E ok \in BOOLEAN : AggHeaders(ok)
  \/ \E name \in {"AbortError", "TypeError"} : AggFail(name)
  \/ \E name \in {"SyntaxError", "Error"} : AggBodyFail(name)
  \/ AggWake
  \/ AggTick

SpecAgg == Init /\ [][NextAgg]_vars

\* One aggregation over as many pages as the loop will request.
NextLong ==
  \/ \E d \in Dirs, ts \in TsInputs : SchedRequest(AggQuery(d, ts))
  \/ \E ok \in BOOLEAN : AggHeaders(ok)
  \/ \E p \in LongPages : AggPage(p)
  \/ \E name \in {"AbortError", "TypeError"} : AggFail(name)
  \/ \E name \in {"SyntaxError", "Error"} : AggBodyFail(name)
  \/ AggWake
  \/ AggSleep

SpecLong == Init /\ [][NextLong]_vars

\* Requests to either endpoint, one after the other.
NextApi ==
  \/ \E req \in SchedRequests : SchedRequest(req)
  \/ \E ok \in BOOLEAN : AggHeaders(ok)
  \/ \E p \in ApiPages : AggPage(p)
  \/ \E p \in ApiPages : SinglePage(p)
  \/ \E name \in {"AbortError", "TypeError"} : AggFail(name)
  \/ \E name \in {"SyntaxError", "Error"} : AggBodyFail(name)
  \/ AggWake
  \/ AggSleep
  \/ \E d \in SchedDelays : SchedReturn(d)
  \/ \E req \in FtRequests : FtStart(req)
  \/ \E ok \in BOOLEAN : FtHeaders(ok)
  \/ \E html \in Htmls : FtBody(html)
  \/ \E name \in {"AbortError", "TypeError"} : FtFail(name)
  \/ FtBodyFail
  \/ \E d \in FtDelays : FtReturn(d)

SpecApi == InitApi /\ [][NextApi]_vars

\* ---- the extraction of the flight-times handler over many tracking pages
\* The activity log under the k-th flight key: empty, one entry, or two
\* entries of which the second has the later scheduled departure.
SelLogs(k) ==
  {<< >>}
    \cup {<<LogFlight(k, sch)>> : sch \in 0..MaxSched}
    \cup {<<LogFlight(k, sch), LogFlight(k + MaxKeys, MaxSched + 1)>> : sch \in 0..MaxSched}

\* the pages with n flight keys
RECURSIVE SelFlightsOf(_)
SelFlightsOf(n) ==
  IF n = 0 THEN {<< >>}
  ELSE {Append(fl, log) : fl \in SelFlightsOf(n - 1), log \in SelLogs(n)}

SelFlights == UNION {SelFlightsOf(n) : n \in 0..MaxKeys}

SelHtmls == {Html("ok", fl) : fl \in SelFlights}

SelRequest == FtReq("GET", Text(<<"u", "a", "1", "2">>), FromA, "")

NextSel ==
  \/ FtStart(SelRequest)
  \/ FtHeaders(TRUE)
  \/ \E html \in SelHtmls : FtBody(html)

SpecSel == InitLim /\ [][NextSel]_vars

\* ---- the flight-times handler under requests of any method and origin
Origins ==
  { Absent, Text(<< >>), Text(ALLOWED_ORIGIN), Text(LOCALHOST),
    Text(LOCALHOST \o <<":", "3", "0">>),
    Text(LOCALHOST \o <<":">>),
    Text(LOCALHOST \o <<":", "3", "x">>),
    Text(LOCALHOST \o <<".", "e", "v", "i", "l", ".", "c", "o">>),
    Text(<<"h", "t", "t", "p", "s", ":", "/", "/", "l", "o", "c", "a", "l", "h", "o", "s", "t">>),
    Text(ALLOWED_ORIGIN \o <<"m">>),
    Text(ToUpperCase(LOCALHOST)),
    Text(<<"h", "t", "t", "p", "s", ":", "/", "/", "e", "v", "i", "l", ".", "c", "o">>) }

Methods == {"GET", "OPTIONS", "POST", "HEAD"}

CorsRequests ==
  { [FtReq(m, f, FromA, "") EXCEPT !.origin = o] :
      m \in Methods, f \in {Text(<<"u", "a", "1", "2">>), Absent}, o \in Origins }

InitCors == proc = "flight-times" /\ InitApi

NextCors ==
  \/ \E req \in CorsRequests : FtStart(req)
  \/ \E ok \in BOOLEAN : FtHeaders(ok)
  \/ \E html \in Htmls : FtBody(html)
  \/ \E name \in {"AbortError", "TypeError"} : FtFail(name)
  \/ FtBodyFail
  \/ \E d \in {0, CACHE_TTL_MS + 1} : FtReturn(d)

SpecCors == InitCors /\ [][NextCors]_vars

\* ---- single-page and aggregation requests for one day window
PageRequests ==
  {SchedReq(Word("ORD"), Absent, Text(DecimalText(ts)), page) :
     ts \in TsInputs,
     page \in {Absent, Text(<<"1">>), Text(<<"2">>), Text(<<"x">>), Text(<< >>)}}

\* upstream pages with records of another carrier and past the day boundary
PagePages(ts) ==
  [total : {0, 2},
   data : {<< >>, <<Entry(TRUE, "UA", 0, 0)>>,
           <<Entry(TRUE, "DL", 0, 0), Entry(TRUE, "UA", ts + DAY_SECONDS, ts + DAY_SECONDS),
             Entry(FALSE, "", 0, 0)>>}]

NextPage ==
  \/ \E req \in PageRequests : SchedRequest(req)
  \/ AggHeaders(TRUE)
  \/ \E p \in PagePages(agg.ts) : AggPage(p)
  \/ \E p \in PagePages(agg.ts) : SinglePage(p)
  \/ AggWake
  \/ AggSleep
  \/ SchedReturn(0)

SpecPage == Init /\ [][NextPage]_vars

\* ---- aggregation requests with a numeric and a non-numeric timestamp
DayRequests ==
  {SchedReq(Word("ORD"), Word(d), t, Absent) :
     d \in Dirs, t \in {Text(DecimalText(StartTime \div 1000)), Text(<<"a", "b", "c">>)}}

\* upstream pages whose records carry times around the end of the day that
\* starts at StartTime
DayPages ==
  LET dayEnd == (StartTime \div 1000) + DAY_SECONDS IN
    [total : {0, 2},
     data : {<< >>,
             <<Entry(TRUE, "UA", dayEnd - 1, dayEnd - 1)>>,
             <<Entry(TRUE, "UA", 0, 0), Entry(TRUE, "UA", dayEnd, dayEnd - 1)>>,
             <<Entry(TRUE, "DL", dayEnd, dayEnd), Entry(TRUE, "UA", dayEnd - 1, dayEnd)>>}]

NextDay ==
  \/ \E req \in DayRequests : SchedRequest(req)
  \/ AggHeaders(TRUE)
  \/ \E p \in DayPages : AggPage(p)
  \/ AggWake
  \/ AggSleep
  \/ SchedReturn(0)

SpecDay == Init /\ [][NextDay]_vars

\* ---- aggregation over pages with and without scheduled times
KeepPages ==
  LET dayEnd == (StartTime \div 1000) + DAY_SECONDS
      noTime == Entry(TRUE, "UA", 0, 0)
  IN [total : {0, 2},
      data : {<< >>, <<noTime>>, <<noTime, noTime>>,
              <<Entry(TRUE, "UA", dayEnd, dayEnd), noTime>>,
              <<Entry(TRUE, "DL", dayEnd, dayEnd), noTime, Entry(FALSE, "", 0, 0)>>,
              <<noTime, Entry(TRUE, "UA", dayEnd - 1, dayEnd)>>}]

NextKeep ==
  \/ \E d \in Dirs, ts \in TsInputs : SchedRequest(AggQuery(d, ts))
  \/ AggHeaders(TRUE)
  \/ \E p \in KeepPages : AggPage(p)
  \/ AggWake
  \/ AggSleep
  \/ SchedReturn(0)

SpecKeep == Init /\ [][NextKeep]_vars

\* ---- two invocations of a handler in flight at once
PeerFtRequests ==
  { FtReq("GET", Text(<<"u", "a", "1", "2">>), FromA, ""),
    FtReq("GET", Text(<<"U", "A", "L", "1", "2">>), Absent, ""),
    FtReq("GET", Text(<<"3", "4">>), Absent, "") }

PeerHtmls ==
  { Html("none", << >>),
    Html("ok", << <<LogFlight(1, 50)>> >>),
    Html("ok", << <<LogFlight(2, 70)>> >>) }

PeerSchedRequests ==
  { SchedReq(Word("ORD"), Absent, Text(DecimalText(StartTime \div 1000)), Absent),
    SchedReq(Word("ORD"), Absent, Text(DecimalText(StartTime \div 1000)), Text(<<"2">>)) }

InitPeer == proc \in Procs /\ Fresh

NextPeer ==
  \/ Switch
  \/ \E req \in PeerFtRequests : FtStart(req)
  \/ FtHeaders(TRUE)
  \/ \E html \in PeerHtmls : FtBody(html)
  \/ FtReturn(0)
  \/ \E req \in PeerSchedRequests : SchedRequest(req)
  \/ AggHeaders(TRUE)
  \/ \E p \in ApiPages : AggPage(p)
  \/ \E p \in ApiPages : SinglePage(p)
  \/ AggWake
  \/ AggSleep
  \/ SchedReturn(0)

SpecPeer == InitPeer /\ [][NextPeer]_vars

\* ---- limiter checks by three clients, inside and after one window
ClientTimes == {StartTime + RATE_WINDOW_MS \div 2, StartTime + RATE_WINDOW_MS + 1}

NextClients ==
  \/ \E r \in ClientRequests : IsRateLimited(r)
  \/ Tick(ClientTimes)

SpecClients == InitLim /\ [][NextClients]_vars

\* ---- callers of rateLimitedFetch on a clock of half intervals
WaitTimes == {StartTime + i * (MIN_REQUEST_INTERVAL \div 2) : i \in 0..3}

NextWait ==
  \/ \E c \in Callers : RLCall(c)
  \/ \E c \in Callers : RLWake(c)
  \/ \E c \in Callers : RLFetchDone(c)
  \/ Tick(WaitTimes)

SpecWait == InitRL /\ [][NextWait]_vars

\* ---- one aggregation alone in a process that has or has not fetched before
NextPace ==
  \/ \E d \in Dirs, ts \in TsInputs : SchedRequest(AggQuery(d, ts))
  \/ AggHeaders(TRUE)
  \/ \E p \in LongPages : AggPage(p)
  \/ AggWake
  \/ AggSleep
  \/ AggTick

SpecPace == InitRL /\ [][NextPace]_vars

\* ---- flight-times requests of a client whose quota is nearly used up
\* The log of client "a" after RATE_MAX - 1 requests that passed the
\* limiter in the last 40 s; none of them stored a result, so each of them
\* ended in 502, 504 or 404.
QuotaLog == [i \in 1..(RATE_MAX - 1) |-> StartTime - (RATE_MAX - i) * 10000]

QuotaRequests ==
  { FtReq("GET", Text(<<"u", "a", "1", "2">>), FromA, ""),
    FtReq("GET", Text(<<"u", "a", "3", "4">>), FromA, ""),
    FtReq("GET", Text(<<"U", "A", "L", "1", "2">>), Absent, "") }

QuotaDelays == {0, 1000, RATE_WINDOW_MS + 1}

InitQuota ==
  /\ proc = "flight-times"
  /\ clock = StartTime
  /\ lastFR24Request = 0
  /\ RLFresh
  /\ schedCache = << >> /\ ftCache = << >>
  /\ CacheFresh
  /\ rateLimitByIp \in {[i \in {} |-> << >>], [i \in {"a"} |-> QuotaLog]}
  /\ allowedLog = [ip \in Ips |-> IF ip \in DOMAIN rateLimitByIp
                                  THEN rateLimitByIp[ip] ELSE << >>]
  /\ nchecks = 0
  /\ AggFresh
  /\ FtFresh

NextQuota ==
  \/ \E req \in QuotaRequests : FtStart(req)
  \/ \E ok \in BOOLEAN : FtHeaders(ok)
  \/ \E html \in Htmls : FtBody(html)
  \/ \E name \in {"AbortError", "TypeError"} : FtFail(name)
  \/ FtBodyFail
  \/ \E d \in QuotaDelays : FtReturn(d)

SpecQuota == InitQuota /\ [][NextQuota]_vars

\* ---- sets on caches that are full or one short of full
\* the first stored key and keys that were never stored
EvictKeys == {1} \cup {MAX_CACHE_SIZE + i : i \in 1..2}

InitEvict ==
  /\ proc \in Procs
  /\ clock = StartTime
  /\ lastFR24Request = 0
  /\ RLFresh
  /\ schedCache = IF proc = "schedule" THEN WarmSched(MAX_CACHE_SIZE - 1) ELSE << >>
  /\ ftCache = IF proc = "flight-times" THEN WarmFt(FT_CACHE_LIMIT) ELSE << >>
  /\ CacheFresh
  /\ LimFresh
  /\ AggFresh
  /\ FtFresh

NextEvict ==
  \/ \E k \in EvictKeys : CacheGet(k)
  \/ \E k \in EvictKeys, in \in SchedInputs : CacheSet(k, in.data, in.ttl)
  \/ \E k \in EvictKeys : GetCached(k)
  \/ \E k \in EvictKeys, d \in Data : SetCache(k, d)
  \/ Tick(CacheTimes)

SpecEvict == InitEvict /\ [][NextEvict]_vars

\* ---- the schedule handler for day windows around the 24 h mark
SignedText(n) == IF n < 0 THEN <<"-">> \o DecimalText(0 - n) ELSE DecimalText(n)

\* day-window starts: more than, exactly and less than 24 h before the
\* start of the observation, at it, and a day after it
TtlTimestamps ==
  LET now == StartTime \div 1000
  IN {now - DAY_SECONDS - 1, now - DAY_SECONDS, now - DAY_SECONDS + 1, now, now + DAY_SECONDS}

TtlRequests ==
  {SchedReq(Word("ORD"), Absent, Text(SignedText(ts)), Absent) : ts \in TtlTimestamps}
    \cup {SchedReq(Word("ORD"), Absent, Text(SignedText(ts)), Text(<<"2">>)) :
            ts \in {(StartTime \div 1000) - DAY_SECONDS - 1, (StartTime \div 1000) - DAY_SECONDS}}
    \cup {SchedReq(Word("ORD"), Absent, Text(<<"a", "b", "c">>), Absent)}

NextTtl ==
  \/ \E req \in TtlRequests : SchedRequest(req)
  \/ AggHeaders(TRUE)
  \/ \E p \in ApiPages : AggPage(p)
  \/ \E p \in ApiPages : SinglePage(p)
  \/ AggWake
  \/ AggSleep
  \/ SchedReturn(1000)

SpecTtl == Init /\ [][NextTtl]_vars

\* ---- epochToISO, alone and in the result of the flight-times handler
EpochValues ==
  { Absent, NullValue, Num(0), Num(1), Num(-1), Num(86400), Num(951782400),
    Num(1700000000), Num(1704067200) }

\* the epochs of an entry: one value everywhere except in one field
IsoTimes ==
  {[fld \in TimeFields |-> IF fld = odd THEN w ELSE v] :
     odd \in TimeFields, v \in {Absent, NullValue, Num(0), Num(1704067200)},
     w \in {Absent, NullValue, Num(0), Num(1700000000)}}

IsoHtmls == {Html("ok", <<<<LogFlightWith(1, times)>>>>) : times \in IsoTimes}

NextIso ==
  \/ ret.op = "none" /\ \E epoch \in EpochValues : CallEpochToISO(epoch)
  \/ FtStart(SelRequest)
  \/ FtHeaders(TRUE)
  \/ \E html \in IsoHtmls : FtBody(html)

SpecIso == InitLim /\ [][NextIso]_vars

\* ---- normalizeFlightNumber over many inputs
RawChars == {"U", "u", "A", "a", "L", "D", "d", "l", " ", "1", "8", "X"}

RECURSIVE TextsUpTo(_)
TextsUpTo(n) ==
  IF n = 0 THEN {<< >>}
  ELSE LET shorter == TextsUpTo(n - 1)
       IN shorter \cup {Append(t, c) : t \in {u \in shorter : Len(u) = n - 1}, c \in RawChars}

\* the inputs the repository's tests use
TestTexts ==
  { <<"D", "L", "2", "2", "2", "1">>, <<"2", "2", "2", "1">>, <<"D", "A", "L", "1", "0", "0">>,
    <<" ", " ", "d", "l", " ", "8", "3", "8", " ">>, <<"1">>, << >>,
    <<"U", "A", "2", "2", "2", "1">>, <<"U", "A", "L", "1", "0", "0">>,
    <<" ", " ", "u", "a", " ", "8", "3", "8", " ">>, <<"U", "A", "L", " ", "1", "0", "0">>,
    <<"1", "2", "3", "4", "5">> }

RawInputs ==
  {Text(t) : t \in TextsUpTo(MaxRawLen) \cup TestTexts}
    \cup {Absent, NullValue,
          Arr(<<Text(<<"D", "L", "1", "0", "0">>), Text(<<"D", "L", "2", "0", "0">>)>>),
          Arr(<<Text(<<"U", "A", "1", "0", "0">>), Text(<<"U", "A", "2", "0", "0">>)>>),
          Arr(<<Text(<<"U", "A", "1", "0", "0">>)>>)}

ArrayRequests ==
  {FtReq("GET", Arr(<<Text(<<"U", "A", "1", "0", "0">>), Text(<<"U", "A", "2", "0", "0">>)>>),
         FromA, "")}

NextNorm ==
  \/ ret.op = "none" /\ \E raw \in RawInputs : CallNormalize(raw)
  \/ \E req \in ArrayRequests : FtStart(req)

SpecNorm == InitLim /\ [][NextNorm]_vars

\* ------------------------------------------------------ rate limiter claims
\* C1: for any number of concurrent callers and any interleaving, no two
\* upstream dispatches are closer together than MIN_REQUEST_INTERVAL.
C1_DispatchSpacing ==
  \A i \in 1..(Len(dispatches) - 1) :
    dispatches[i + 1] - dispatches[i] >= MIN_REQUEST_INTERVAL

\* C2: when exactly two calls are issued at the same instant, with no other
\* caller and whatever the shared last-call time was, their two dispatch
\* timestamps are at least MIN_REQUEST_INTERVAL apart.
C2_TwoImmediateCalls ==
  \A c1, c2 \in Callers :
    ( /\ c1 # c2
      /\ ncalls = 2
      /\ callNow[c1] = callNow[c2]
      /\ pc[c1] \in {"fetching", "idle"} /\ dispatchAt[c1] >= callNow[c1]
      /\ pc[c2] \in {"fetching", "idle"} /\ dispatchAt[c2] >= callNow[c2]
      /\ callNow[c1] > 0 )
    => \/ dispatchAt[c1] - dispatchAt[c2] >= MIN_REQUEST_INTERVAL
       \/ dispatchAt[c2] - dispatchAt[c1] >= MIN_REQUEST_INTERVAL
\* ------------------------------------------------------------ cache claims
\* C3: in every reachable state each cache map (schedule cache and
\* flight-times cache) holds at most MAX_CACHE_SIZE entries.
C3_CacheBound ==
  /\ Len(schedCache) <= MAX_CACHE_SIZE
  /\ Len(ftCache) <= MAX_CACHE_SIZE

KeysAfterPut(ks, k) ==
  IF \E i \in 1..Len(ks) : ks[i] = k THEN ks ELSE Append(ks, k)

\* C4: on both caches, a set on a cache that already holds MAX_CACHE_SIZE
\* entries evicts exactly the earliest-inserted entry before inserting, so
\* that after MAX_CACHE_SIZE + 1 distinct keys the first one is gone and the
\* most recent MAX_CACHE_SIZE remain.
C4_EvictOldestWhenFull ==
  [][ /\ \A k \in CacheKeys, in \in SchedInputs :
           (CacheSet(k, in.data, in.ttl) /\ Len(schedCache) = MAX_CACHE_SIZE)
             => MapKeys(schedCache') = KeysAfterPut(Tail(MapKeys(schedCache)), k)
      /\ \A k \in CacheKeys, d \in Data :
           (SetCache(k, d) /\ Len(ftCache) = MAX_CACHE_SIZE)
             => MapKeys(ftCache') = KeysAfterPut(Tail(MapKeys(ftCache)), k)
    ]_vars

\* What C5 requires of one get: m is the map before, m2 the map after, k the
\* key, expiresAt the expiry of an entry, value what a hit returns.
GetAsClaimed(m, m2, k, expiresAt(_), value(_)) ==
  LET known == \E i \in 1..Len(m) : m[i].key = k
      e == m[CHOOSE i \in 1..Len(m) : m[i].key = k]
      stale == known /\ clock > expiresAt(e)
  IN /\ ret'.found <=> (known /\ ~stale)
     /\ ret'.found => (ret'.val = value(e) /\ clock <= expiresAt(e))
     /\ IF stale
        THEN /\ Len(m2) = Len(m) - 1
             /\ m2 = SelectSeq(m, LAMBDA x : x.key # k)
        ELSE m2 = m

\* C5: a cache get returns absent exactly when the key is unknown or
\* now > expiresAt (at now = expiresAt the entry is still returned); a get on
\* an expired entry removes that entry and no other; a get on a live or
\* unknown key leaves the map unchanged; no get returns a value whose TTL
\* has elapsed.  Both caches.
C5_GetSemantics ==
  [][ /\ \A k \in CacheKeys :
           CacheGet(k) =>
             GetAsClaimed(schedCache, schedCache', k,
                          LAMBDA e : e.expires, LAMBDA e : e)
      /\ \A k \in CacheKeys :
           GetCached(k) =>
             GetAsClaimed(ftCache, ftCache', k,
                          LAMBDA e : e.ts + CACHE_TTL_MS, LAMBDA e : e.data)
    ]_vars

\* An expired entry has been read and removed.
C5_Witness == ret.op \in {"cacheGet", "getCached"} /\ ret.expired /\ ~ret.found

\* ------------------------------------------------ per-client limiter claims
\* the number of timestamps of log that lie in the trailing window of now
InWindow(log, now) ==
  Cardinality({i \in 1..Len(log) : log[i] >= now - RATE_WINDOW_MS})

\* C6: for one client, 5 checks within any 60,000 ms window are allowed and
\* a further check inside the window is rejected; once the window has
\* rolled past the first allowed call the next check is allowed again.
\* That is: a check is rejected exactly when 5 allowed calls of that client
\* lie within the trailing 60,000 ms, and six allowed calls always span
\* more than 60,000 ms.
C6_FivePerWindow ==
  /\ [](\A ip \in Ips : \A i \in 1..(Len(allowedLog[ip]) - RATE_MAX) :
          allowedLog[ip][i + RATE_MAX] - allowedLog[ip][i] > RATE_WINDOW_MS)
  /\ [][ \A r \in Requests :
           IsRateLimited(r) =>
             (ret'.val <=> InWindow(allowedLog[ret'.arg], clock) >= RATE_MAX) ]_vars

\* A sixth call of one client is allowed 60,001 ms after its first.
C6_Witness ==
  /\ ret.op = "isRateLimited" /\ ret.val = FALSE
  /\ Len(allowedLog[ret.arg]) = RATE_MAX + 1
  /\ allowedLog[ret.arg][RATE_MAX + 1] - allowedLog[ret.arg][1] = RATE_WINDOW_MS + 1
  /\ allowedLog[ret.arg][RATE_MAX] = allowedLog[ret.arg][1]

\* C7: a rejected check records nothing: apart from pruning timestamps
\* older than 60,000 ms the client's log is unchanged (and so is every other
\* client's), so rejected calls never postpone the next allowed call.
C7_RejectRecordsNothing ==
  [][ \A r \in Requests :
        (IsRateLimited(r) /\ ret'.val = TRUE) =>
          LET ip == ret'.arg IN
            /\ ip \in DOMAIN rateLimitByIp
            /\ rateLimitByIp'[ip] =
                 SelectSeq(rateLimitByIp[ip], LAMBDA t : t >= clock - RATE_WINDOW_MS)
            /\ \A j \in DOMAIN rateLimitByIp \ {ip} : rateLimitByIp'[j] = rateLimitByIp[j]
            /\ allowedLog' = allowedLog ]_vars

\* A check has been rejected at a time when part of the log was stale.
C7_Witness ==
  /\ ret.op = "isRateLimited" /\ ret.val = TRUE
  /\ Len(allowedLog[ret.arg]) > RATE_MAX

\* C8: every client's log holds at most 5 timestamps in non-decreasing
\* order, and right after a check all of them lie within the trailing
\* 60,000 ms of the check time.
C8_LogBounded ==
  /\ [](\A ip \in DOMAIN rateLimitByIp :
          /\ Len(rateLimitByIp[ip]) <= RATE_MAX
          /\ \A i \in 1..(Len(rateLimitByIp[ip]) - 1) :
               rateLimitByIp[ip][i] <= rateLimitByIp[ip][i + 1])
  /\ [][ \A r \in Requests :
           IsRateLimited(r) =>
             \A i \in 1..Len(rateLimitByIp'[ret'.arg]) :
               /\ rateLimitByIp'[ret'.arg][i] >= clock - RATE_WINDOW_MS
               /\ rateLimitByIp'[ret'.arg][i] <= clock ]_vars

\* A check has pruned stale timestamps and the log is full again.
C8_Witness ==
  /\ ret.op = "isRateLimited"
  /\ Len(rateLimitByIp[ret.arg]) = RATE_MAX
  /\ Len(allowedLog[ret.arg]) > RATE_MAX
\* ------------------------------------------------------ aggregation claims
\* C9: in aggregation mode, once a page contains a carrier-matching record
\* whose relevant timestamp is >= dayStart + 86400, no later page is
\* requested and pagesScanned equals the number of that page.
C9_StopAtBoundary ==
  boundaryAt # 0 =>
    /\ \A i \in 1..Len(requested) : requested[i] <= boundaryAt
    /\ response.status = 200 => response.body.pagesScanned = boundaryAt

\* a carrier-matching record whose relevant timestamp is absent or before
\* the day boundary
Keepable(e, dir, dayEnd) ==
  /\ e.flight /\ e.iata = "UA"
  /\ LET t == IF dir = "departures" THEN e.dep ELSE e.arr
     IN t = 0 \/ t < dayEnd

\* the loop ended on the page that crossed the day boundary
EndedOnBoundaryPage ==
  /\ response.status = 200
  /\ boundaryAt # 0
  /\ lastPage.num = boundaryAt

\* C10 as stated: when a record on a page crosses the day boundary the
\* aggregator still finishes the page, so every carrier-matching record of
\* that page with an absent or in-day timestamp is in the result, whatever
\* its position relative to the crossing record.
C10_FinishesPage ==
  EndedOnBoundaryPage =>
    \A i \in 1..Len(lastPage.data) :
      Keepable(lastPage.data[i], agg.dir, DayEnd(agg.ts)) =>
        \E j \in 1..Len(response.body.flights) :
          response.body.flights[j] = lastPage.data[i]

\* index of the first boundary-crossing record of a page
FirstCrossing(data, dir, dayEnd) ==
  CHOOSE i \in 1..Len(data) :
    /\ HasBoundary(<<data[i]>>, dir, dayEnd)
    /\ \A j \in 1..(i - 1) : ~HasBoundary(<<data[j]>>, dir, dayEnd)

\* C10 amended: the scan of the page stops at its first boundary-crossing
\* record: what the page contributes to the result is exactly its
\* carrier-matching records (timestamp absent or in-day) that precede that
\* record, in page order; records after it are not included.
C10_StopsAtCrossingRecord ==
  EndedOnBoundaryPage =>
    LET dayEnd == DayEnd(agg.ts)
        flights == response.body.flights
        b == FirstCrossing(lastPage.data, agg.dir, dayEnd)
    IN SubSeq(flights, lastPage.flightsBefore + 1, Len(flights))
         = SelectSeq(SubSeq(lastPage.data, 1, b - 1),
                     LAMBDA e : Keepable(e, agg.dir, dayEnd))

\* The loop ended on a page whose first record crosses the boundary and
\* whose second record is a carrier-matching in-day record.
C10_Witness ==
  /\ EndedOnBoundaryPage
  /\ Len(lastPage.data) >= 2
  /\ HasBoundary(<<lastPage.data[1]>>, agg.dir, DayEnd(agg.ts))
  /\ Keepable(lastPage.data[2], agg.dir, DayEnd(agg.ts))

\* ------------------------------------------------- aggregation loop claims
\* C11: every aggregation requests pages sequentially starting at 1, each page
\* number at most once, never more than MAX_PAGES pages (so the loop is
\* bounded and terminates), at most min(totalPages, MAX_PAGES) pages for the
\* totalPages it reports, and it requests no page after the first page that
\* returned zero records.
C11_PagesBounded ==
  ~agg.single =>
    /\ requested = [i \in 1..Len(requested) |-> i]
    /\ Len(requested) <= MAX_PAGES
    /\ (agg.pc = "done" /\ response.status = 200 /\ ~response.body.cached)
         => Len(requested) <= Min(response.body.totalPages, MAX_PAGES)
    /\ \A i \in 1..Len(pageLens) :
         pageLens[i] = 0 => (i = Len(pageLens) /\ Len(requested) = i)

\* ------------------------------------------------------------ handler claims
\* the map m2 holds an entry that the map m does not hold
HasNewEntry(m, m2) ==
  \E i \in 1..Len(m2) : \A j \in 1..Len(m) : m[j] # m2[i]

\* C12: a cache entry is written only by the step that answers 200, on both
\* endpoints, so a request that ends with another status writes none; when a
\* page fetch of an aggregation fails the response carries an error and no
\* flights, and the cache holds no entry for what the request had collected.
C12_FailureDiscardsAll ==
  [][ /\ HasNewEntry(schedCache, schedCache')
        => (agg'.pc = "done" /\ response'.status = 200)
      /\ HasNewEntry(ftCache, ftCache')
        => (ft'.pc = "done" /\ ftResponse'.status = 200)
      /\ (agg.pc \in {"fetching", "reading"} /\ agg'.pc = "done"
            /\ response'.status # 200)
        => /\ "error" \in DOMAIN response'.body
           /\ "flights" \notin DOMAIN response'.body
           /\ schedCache' = schedCache ]_vars

\* an aggregation that had collected a flight from page 1 has failed on page 2
C12_Witness ==
  /\ agg.pc = "done"
  /\ ~agg.single
  /\ response.status \in {500, 504}
  /\ Len(pageLens) = 1
  /\ Len(agg.allUAFlights) = 1
  /\ Len(requested) = 2
  /\ ~MapHas(schedCache, AggKey(agg.dir, agg.ts))

\* what identifies a schedule request: mode, direction, timestamp and page
ReqId(a) ==
  [single |-> a.single, dir |-> a.dir, ts |-> a.ts,
   page |-> IF a.single THEN a.pageNum ELSE 0]

SameRequest(sv, a) ==
  [single |-> sv.single, dir |-> sv.dir, ts |-> sv.ts, page |-> sv.page] = ReqId(a)

\* C13: on the schedule endpoint a 200 response says cached: true only when
\* an earlier request for the same hub, direction and timestamp was answered
\* from upstream data and its TTL has not elapsed, so the first request is
\* answered with cached: false; and a repeat of a request before the TTL of
\* its entry has elapsed is answered 200 with cached: true in the same step,
\* without any call of rateLimitedFetch.
C13_FirstMissThenHit ==
  [][ /\ (agg'.pc = "done" /\ response'.status = 200 /\ response'.body.cached)
        => \E sv \in served : SameRequest(sv, agg') /\ clock <= sv.at + sv.ttl
      /\ (agg.pc = "idle" /\ agg'.pc # "idle" /\ response'.status # 400
            /\ \E sv \in served : SameRequest(sv, agg') /\ clock < sv.at + sv.ttl)
        => /\ agg'.pc = "done"
           /\ response'.status = 200
           /\ response'.body.cached
           /\ ncalls' = ncalls
           /\ dispatches' = dispatches ]_vars

\* the second request of a run repeats the first and is answered from the cache
C13_Witness ==
  /\ nreqs = 2
  /\ agg.pc = "done"
  /\ ~agg.single
  /\ response.status = 200
  /\ response.body.cached
  /\ Len(response.body.flights) = 1
  /\ \E sv \in served : SameRequest(sv, agg)

\* the text is a decimal integer: an optional sign and then digits only
IsIntegerText(t) ==
  LET digits == IF Len(t) > 0 /\ t[1] \in {"-", "+"} THEN Tail(t) ELSE t
  IN Len(digits) > 0 /\ AllDigits(digits)

\* C14: the schedule endpoint answers 400 whenever hub is missing, timestamp
\* is missing or is not a valid integer, or dir is given and is neither
\* departures nor arrivals; a request without dir that is not rejected is
\* handled as a departures request.
C14_Validation ==
  [][ (agg.pc = "idle" /\ agg'.pc # "idle") =>
        LET q == query'
            invalid ==
              \/ q.hub.kind = "absent"
              \/ q.timestamp.kind = "absent"
              \/ (q.timestamp.kind = "text" /\ ~IsIntegerText(q.timestamp.chars))
              \/ (q.dir.kind = "word" /\ q.dir.str \notin Dirs)
        IN /\ invalid => (agg'.pc = "done" /\ response'.status = 400)
           /\ (q.dir.kind = "absent" /\ response'.status # 400)
                => agg'.dir = "departures" ]_vars

\* C15: on both endpoints the step that answers 400 (or 405 on the
\* flight-times endpoint) leaves both caches, the per-client limiter and the
\* global rate limiter as they were and issues no upstream fetch.
C15_RejectTouchesNothing ==
  [][ ( \/ (agg.pc = "idle" /\ agg'.pc = "done" /\ response'.status = 400)
        \/ (ft.pc = "idle" /\ ft'.pc = "done" /\ ftResponse'.status \in {400, 405}) )
      => /\ schedCache' = schedCache
         /\ ftCache' = ftCache
         /\ rateLimitByIp' = rateLimitByIp
         /\ allowedLog' = allowedLog
         /\ lastFR24Request' = lastFR24Request
         /\ ncalls' = ncalls
         /\ dispatches' = dispatches
         /\ pc' = pc ]_vars

\* a request is rejected by a process whose cache and limiter hold the traces
\* of an earlier request
C15_Witness ==
  \/ /\ agg.pc = "done" /\ response.status = 400
     /\ Len(schedCache) > 0 /\ lastFR24Request > 0
  \/ /\ ft.pc = "done" /\ ftResponse.status \in {400, 405}
     /\ Len(ftCache) > 0 /\ DOMAIN rateLimitByIp # {}

\* the number of calls of client ip that were allowed in the 60 s before now
CallsInWindow(ip, now) ==
  Cardinality({i \in 1..Len(allowedLog[ip]) : allowedLog[ip][i] >= now - RATE_WINDOW_MS})

\* the flight-times cache holds an unexpired entry for the flight
CachedFresh(flight, now) ==
  \E i \in 1..Len(ftCache) :
    ftCache[i].key = <<"fa", flight>> /\ now - ftCache[i].ts <= CACHE_TTL_MS

\* C16: a valid flight-times request whose flight is cached and unexpired is
\* answered 200 with cached: true, whatever the client's window holds, and
\* leaves the client's log as it was; a valid request that misses the cache
\* from a client whose window holds RATE_MAX calls is answered 429 in the
\* same step, without a fetch.
C16_LimiterOnlyOnMiss ==
  [][ (ft.pc = "idle" /\ ft'.pc # "idle" /\ ftResponse'.status \notin {204, 400, 405}) =>
        IF CachedFresh(ft'.flight, clock)
        THEN /\ ft'.pc = "done"
             /\ ftResponse'.status = 200
             /\ ftResponse'.body.cached
             /\ rateLimitByIp' = rateLimitByIp
             /\ allowedLog' = allowedLog
        ELSE CallsInWindow(ft'.ip, clock) >= RATE_MAX
               => /\ ft'.pc = "done"
                  /\ ftResponse'.status = 429
                  /\ allowedLog' = allowedLog ]_vars

\* a client whose window is full has been served from the cache
C16_Witness ==
  /\ ft.pc = "done"
  /\ ftResponse.status = 200
  /\ ftResponse.body.cached
  /\ CallsInWindow(ft.ip, clock) >= RATE_MAX

\* some flight key of the page has a non-empty activity log
HasCandidate(html) == \E i \in 1..Len(html.flights) : Len(html.flights[i]) > 0

\* C17: the flight-times pipeline answers 502 to an upstream status that is
\* not ok, 504 to the timeout abort, 404 to a page without the embedded blob,
\* 502 to a blob that does not parse, 404 to a parsed blob without a
\* candidate that has a non-empty activity log; a 200 that is not served
\* from the cache comes only from a page with a parsed blob and a candidate.
C17_FailureMapping ==
  (ft.pc = "done" /\ ftResponse.status # 0) =>
    LET got == ft.got
        s == ftResponse.status
    IN /\ got.kind = "status not ok" => s = 502
       /\ got.kind = "AbortError" => s = 504
       /\ got.kind = "html" =>
            /\ got.html.blob = "none" => s = 404
            /\ got.html.blob = "bad" => s = 502
            /\ (got.html.blob = "ok" /\ ~HasCandidate(got.html)) => s = 404
       /\ (s = 200 /\ ~ftResponse.body.cached)
            => (got.kind = "html" /\ got.html.blob = "ok" /\ HasCandidate(got.html))
       /\ (s = 200 /\ ftResponse.body.cached) => got.kind = "none"

\* the page embeds a blob that does not parse, and the answer is 502
C17_Witness ==
  /\ ft.pc = "done"
  /\ ft.got.kind = "html"
  /\ ft.got.html.blob = "bad"
  /\ ftResponse.status = 502

\* the catch block of the schedule handler is answering the Error that
\* fetchOnePage throws for an upstream status that is not ok
UpstreamNotOk ==
  /\ agg.pc = "done"
  /\ response.status # 0
  /\ response.body = ErrorBody("FR24 returned status")

\* C18: a non-2xx response of the schedule upstream during a page fetch is
\* reported to the client with status 502.
C18_Non2xxIs502 == UpstreamNotOk => response.status = 502

\* C19: when the 8000 ms timer of a page fetch of the schedule endpoint
\* fires, the handler stops: the answer is 504, at least 8000 ms have passed
\* since the dispatch, no further page is requested, no call is left in
\* flight and nothing is stored in the cache.
C19_TimeoutAborts ==
  [][ (agg.pc = "fetching" /\ agg'.pc = "done" /\ agg'.caught = "AbortError") =>
        /\ response'.status = 504
        /\ clock' >= dispatchAt[Handler] + FETCH_TIMEOUT_MS
        /\ requested' = requested
        /\ pc'[Handler] # "fetching"
        /\ schedCache' = schedCache ]_vars

\* the timer fired during the fetch of the second page of an aggregation
C19_Witness ==
  /\ agg.pc = "done"
  /\ agg.caught = "AbortError"
  /\ ~agg.single
  /\ requested = <<1, 2>>
  /\ response.status = 504

\* an upstream operation of the schedule handler is in flight: the fetch
\* inside rateLimitedFetch, or the read of the body in fetchOnePage
SchedUpstreamPending == pc[Handler] = "fetching" \/ agg.pc = "reading"
\* an upstream operation of the flight-times handler is in flight
FtUpstreamPending == ft.pc \in {"fetching", "reading"}

\* C20: every upstream operation of either endpoint, the read of the body
\* included, is bound to its timeout: while it is in flight the abort timer
\* of the call is pending, set to fire 8000 ms (schedule) or 10000 ms
\* (flight-times) after the dispatch, so that a request whose upstream never
\* completes is answered 504.
C20_UpstreamBoundToTimeout ==
  /\ SchedUpstreamPending =>
        (abortAt[Handler] > 0 /\ abortAt[Handler] <= dispatchAt[Handler] + FETCH_TIMEOUT_MS)
  /\ FtUpstreamPending =>
        (ft.abortAt > 0 /\ ft.abortAt <= ft.startedAt + FT_FETCH_TIMEOUT_MS)

\* ------------------------------------------------ flight-times extraction
\* the candidates of a page: the first activity-log entries of the flight
\* keys whose log is not empty, in key order
Candidates(flights) ==
  LET logs == SelectSeq(flights, LAMBDA l : Len(l) > 0)
  IN [i \in 1..Len(logs) |-> logs[i][1]]

\* C21: with no candidate the answer is not-found; otherwise the selected
\* record is a candidate; when some candidate has a scheduled gate
\* departure it is the first candidate with the largest one, and when none
\* has it is the first candidate.
C21_CandidateSelection ==
  (ft.pc = "done" /\ ft.got.kind = "html" /\ ft.got.html.blob = "ok") =>
    LET cands == Candidates(ft.got.html.flights)
        n == Len(cands)
        withSched == {i \in 1..n : cands[i].scheduled # 0}
    IN IF n = 0
       THEN ftResponse.status = 404 /\ ftResponse.body.error = "No active flight found"
       ELSE /\ ftResponse.status = 200
            /\ \E k \in 1..n :
                 /\ ftResponse.body.best = cands[k]
                 /\ IF withSched = {}
                    THEN k = 1
                    ELSE /\ k \in withSched
                         /\ \A i \in withSched : cands[i].scheduled <= cands[k].scheduled
                         /\ \A i \in withSched :
                              cands[i].scheduled = cands[k].scheduled => k <= i

\* a candidate without a scheduled value comes first, and two later
\* candidates share the largest scheduled value: the first of the two wins
C21_Witness ==
  /\ ft.pc = "done"
  /\ ft.got.kind = "html"
  /\ Len(ft.got.html.flights) = 3
  /\ LET cands == Candidates(ft.got.html.flights)
     IN /\ Len(cands) = 3
        /\ cands[1].scheduled = 0
        /\ cands[2].scheduled = MaxSched
        /\ cands[3].scheduled = MaxSched
        /\ ftResponse.status = 200
        /\ ftResponse.body.best = cands[2]

\* the origin is 'http://localhost' or 'http://localhost:' and a port number
LocalhostWithPort(o) ==
  \/ o = LOCALHOST
  \/ \E n \in 1..Len(o) :
       /\ Len(o) = Len(LOCALHOST) + 1 + n
       /\ SubSeq(o, 1, Len(LOCALHOST) + 1) = LOCALHOST \o <<":">>
       /\ \A i \in (Len(LOCALHOST) + 2)..Len(o) : IsDigit(o[i])

\* C22: on every response of the flight-times endpoint the
\* Access-Control-Allow-Origin header is the request's origin when that is
\* the allowed origin or http://localhost with an optional port, and the
\* allowed origin for every other or absent origin; OPTIONS is answered 204
\* and a method other than GET and OPTIONS 405, whatever the parameters.
C22_Cors ==
  (ft.pc = "done" /\ ftResponse.status # 0) =>
    LET o == IF ft.origin.kind = "text" THEN ft.origin.chars ELSE << >>
    IN /\ IF o = ALLOWED_ORIGIN \/ LocalhostWithPort(o)
          THEN ft.allowOrigin = o
          ELSE ft.allowOrigin = ALLOWED_ORIGIN
       /\ ft.method = "OPTIONS" => ftResponse.status = 204
       /\ ft.method \notin {"GET", "OPTIONS"} => ftResponse.status = 405

\* a cache hit for a request from http://localhost:30
C22_Witness ==
  /\ ft.pc = "done"
  /\ ftResponse.status = 200
  /\ ftResponse.body.cached
  /\ ft.origin = Text(LOCALHOST \o <<":", "3", "0">>)
  /\ ft.allowOrigin = LOCALHOST \o <<":", "3", "0">>

\* ------------------------------------------------- normalizeFlightNumber
\* the carrier of the repository's tests: 'DL', 'DAL'
TestPrefix == <<"D", "L">>
TestCode == <<"D", "A", "L">>

\* String.prototype.trim on a character sequence
RECURSIVE TrimEnd(_)
TrimEnd(t) == IF Len(t) > 0 /\ IsSpace(t[Len(t)]) THEN TrimEnd(SubSeq(t, 1, Len(t) - 1)) ELSE t
Trim(t) == TrimEnd(SkipSpaces(t))

OneToFourDigits(t) == Len(t) \in 1..4 /\ AllDigits(t)

\* C23: normalizeFlightNumber maps the two-letter prefix followed by 1-4
\* digits, in any case and with any whitespace, to the three-letter code
\* followed by the digits ('DL2221' -> 'DAL2221', '  dl 838 ' -> 'DAL838');
\* a bare 1-4 digit string gets the three-letter code prepended
\* ('2221' -> 'DAL2221'); an input that starts with the three-letter code
\* is returned trimmed and uppercased ('DAL100' -> 'DAL100').
C23_Normalize ==
  (ret.op = "normalizeFlightNumber" /\ ret.arg.kind = "text") =>
    LET raw == ret.arg.chars
        q == StripSpaces(ToUpperCase(raw))
        out == ret.val
    IN /\ ~out.threw
       /\ (StartsWith(q, TestPrefix) /\ OneToFourDigits(SubSeq(q, 3, Len(q))))
            => out.value = TestCode \o SubSeq(q, 3, Len(q))
       /\ OneToFourDigits(q) => out.value = TestCode \o q
       /\ StartsWith(ToUpperCase(Trim(raw)), TestCode) => out.value = ToUpperCase(Trim(raw))

\* C24: normalizeFlightNumber returns the empty string for '', null and
\* undefined, and for an array it returns the normalization of the array's
\* first element, without raising an error.
C24_EmptyAndArray ==
  ret.op = "normalizeFlightNumber" =>
    /\ ret.arg \in {Text(<< >>), NullValue, Absent} => ret.val = Returned(<< >>)
    /\ ret.arg.kind = "array" => ret.val = Returned(NormalizeFlightNumber(ret.arg.items[1]))

\* ------------------------------------------------------------ epochToISO
\* t has the shape YYYY-MM-DDTHH:mm:ss.sssZ
IsIsoUtc(t) ==
  /\ Len(t) = 24
  /\ \A i \in 1..24 :
       IF i \in {5, 8} THEN t[i] = "-"
       ELSE IF i = 11 THEN t[i] = "T"
       ELSE IF i \in {14, 17} THEN t[i] = ":"
       ELSE IF i = 20 THEN t[i] = "."
       ELSE IF i = 24 THEN t[i] = "Z"
       ELSE IsDigit(t[i])

Iso20240101 ==
  <<"2", "0", "2", "4", "-", "0", "1", "-", "0", "1", "T", "0", "0", ":", "0", "0", ":",
    "0", "0", ".", "0", "0", "0", "Z">>
Date19700101 == <<"1", "9", "7", "0", "-", "0", "1", "-", "0", "1">>

NoEpoch == {Absent, NullValue, Num(0)}

\* C25: epochToISO returns '' for 0, null and undefined and an ISO-8601 UTC
\* string for a positive epoch (1704067200 -> '2024-01-01T00:00:00.000Z');
\* each of the twelve timestamps of a success body is empty exactly when
\* the upstream epoch is absent, null or zero, and such an epoch never
\* comes out as a 1970-01-01 date.
C25_EpochToISO ==
  /\ ret.op = "epochToISO" =>
        /\ ~ret.val.threw
        /\ ret.arg \in NoEpoch => ret.val.value = << >>
        /\ (ret.arg.kind = "number" /\ ret.arg.n > 0) => IsIsoUtc(ret.val.value)
        /\ ret.arg = Num(1704067200) => ret.val.value = Iso20240101
  /\ (ft.pc = "done" /\ ftResponse.status = 200) =>
        \A fld \in TimeFields :
          LET epoch == ftResponse.body.best.times[fld]
              out == ftResponse.body.times[fld]
          IN /\ (out = << >>) <=> (epoch \in NoEpoch)
             /\ epoch \in NoEpoch => ~StartsWith(out, Date19700101)
             /\ epoch \notin NoEpoch => IsIsoUtc(out)

\* a success body with a zero upstream epoch next to epochs of 2024-01-01
C25_Witness ==
  /\ ft.pc = "done"
  /\ ftResponse.status = 200
  /\ ftResponse.body.best.times[<<"landingTimes", "actual">>] = Num(0)
  /\ ftResponse.body.times[<<"landingTimes", "actual">>] = << >>
  /\ ftResponse.body.best.times[GateDepartureScheduled] = Num(1704067200)
  /\ ftResponse.body.times[GateDepartureScheduled] = Iso20240101

\* ------------------------------------------------- schedule handler, TTL
\* the TTL in seconds for the day window starting at ts, for a request
\* handled at nowMs
TtlSeconds(ts, nowMs) ==
  IF ts # NaN /\ (nowMs \div 1000) - ts > DAY_SECONDS THEN 300 ELSE 60

\* the cache key of the request being served
ServedKey ==
  IF agg.single THEN SchedKey(agg.dir, agg.ts, agg.pageNum) ELSE AggKey(agg.dir, agg.ts)

\* C26: the TTL and s-maxage of the schedule endpoint are 300 s exactly
\* when the day-window start is more than 86400 s before the time the
\* request is handled and 60 s otherwise; every 200 response, hit or miss,
\* carries that s-maxage, and on a miss the entry is stored with that TTL.
C26_TtlAndMaxAge ==
  (agg.pc = "done" /\ response.status = 200) =>
    LET secs == TtlSeconds(agg.ts, agg.startedAt)
    IN /\ agg.maxAge = secs
       /\ ~response.body.cached =>
            /\ MapHas(schedCache, ServedKey)
            /\ MapGet(schedCache, ServedKey).expires = clock + secs * 1000

\* a miss for a day window that started 24 h and 1 s before the request
C26_Witness ==
  /\ agg.pc = "done"
  /\ response.status = 200
  /\ ~response.body.cached
  /\ agg.ts # NaN
  /\ (agg.startedAt \div 1000) - agg.ts = DAY_SECONDS + 1
  /\ agg.maxAge = 300

\* ------------------------------------------ schedule handler, single page
\* C27: a request with page is answered from one upstream fetch of that
\* page on a miss; the body is the raw upstream page, records of other
\* carriers and past the day boundary included, plus the cached flag, and
\* it is stored under the key with the page; a hit returns what an earlier
\* request for the same page stored, and an aggregation request is answered
\* only by an aggregation result.
C27_SinglePage ==
  (agg.pc = "done" /\ response.status = 200) =>
    IF agg.single
    THEN /\ DOMAIN response.body = {"sched", "cached"}
         /\ IF response.body.cached
            THEN /\ requested = << >>
                 /\ \E sv \in served :
                      /\ sv.single /\ sv.page = agg.pageNum
                      /\ sv.dir = agg.dir /\ sv.ts = agg.ts
                      /\ sv.data = response.body.sched
            ELSE /\ requested = <<agg.pageNum>>
                 /\ lastPage.num = agg.pageNum
                 /\ response.body.sched.data = lastPage.data
                 /\ MapHas(schedCache, SchedKey(agg.dir, agg.ts, agg.pageNum))
                 /\ MapGet(schedCache, SchedKey(agg.dir, agg.ts, agg.pageNum)).data
                      = response.body.sched
    ELSE /\ "flights" \in DOMAIN response.body
         /\ response.body.cached =>
              \E sv \in served :
                /\ ~sv.single
                /\ sv.dir = agg.dir /\ sv.ts = agg.ts
                /\ sv.data = [response.body EXCEPT !.cached = FALSE]

\* page 2 is answered from the cache with its record of another carrier and
\* its record past the day boundary
C27_Witness ==
  /\ agg.pc = "done"
  /\ agg.single
  /\ agg.pageNum = 2
  /\ response.status = 200
  /\ response.body.cached
  /\ \E i \in 1..Len(response.body.sched.data) : response.body.sched.data[i].iata = "DL"
  /\ \E i \in 1..Len(response.body.sched.data) :
       PastDay(response.body.sched.data[i], agg.dir, agg.ts + DAY_SECONDS)

\* --------------------------------------------- aggregation, record filter
\* a record of the fixed carrier whose relevant timestamp is absent or
\* strictly less than dayStart + 86400
InDay(e, dir, ts) ==
  /\ IsUA(e)
  /\ \/ FlightTime(e, dir) = 0
     \/ ts # NaN /\ FlightTime(e, dir) < ts + DAY_SECONDS

\* C28: every record in an aggregation result matches the carrier filter
\* and has a relevant timestamp that is absent or strictly less than
\* dayStart + 86400.
C28_InDayRecords ==
  (agg.pc = "done" /\ ~agg.single /\ response.status = 200) =>
    \A i \in 1..Len(response.body.flights) :
      InDay(response.body.flights[i], agg.dir, agg.ts)

\* a record of the fixed carrier whose relevant timestamp field is absent
NoTime(e, dir) == IsUA(e) /\ FlightTime(e, dir) = 0

\* record i of the page is examined by the scan: no carrier-matching record
\* before it is at or past the day boundary
Examined(data, i, dir, dayEnd) ==
  \A j \in 1..(i - 1) : ~HasBoundary(<<data[j]>>, dir, dayEnd)

PLATFORM_LIMIT_MS == 10000
BUDGET_BUFFER_MS == 1500

\* C30: the aggregation loop checks the elapsed time before it fetches a
\* further page: no page is requested later than the budget (the platform
\* limit less the buffer) after the start of the aggregation.
C30_WallClockBudget ==
  (~agg.single /\ agg.pc = "fetching") =>
    callNow[Handler] - agg.startedAt <= PLATFORM_LIMIT_MS - BUDGET_BUFFER_MS

\* ------------------------------------------- aggregation, request pacing
\* C31: within one aggregation with no concurrent request, the dispatches
\* of consecutive pages are at least MIN_REQUEST_INTERVAL apart, and
\* lastFR24Request never decreases and is the time of the latest dispatch.
C31_PagesPaced ==
  /\ [](/\ \A i \in 1..(Len(dispatches) - 1) :
             dispatches[i + 1] >= dispatches[i] + MIN_REQUEST_INTERVAL
        /\ Len(dispatches) > 0 => lastFR24Request = dispatches[Len(dispatches)])
  /\ [][lastFR24Request' >= lastFR24Request]_vars

\* three pages dispatched, one after a full wait and one without any wait
C31_Witness ==
  /\ Len(requested) = 3
  /\ Len(dispatches) >= 3
  /\ \E i \in 1..(Len(dispatches) - 1) :
       /\ dispatches[i + 1] = dispatches[i] + MIN_REQUEST_INTERVAL
  /\ callNow[Handler] = dispatchAt[Handler]
  /\ lastFR24Request = clock

\* -------------------------------------------- rate limiter, no starvation
\* C32: the wait of every caller is between 0 and MIN_REQUEST_INTERVAL:
\* a suspended caller's timer is due at most MIN_REQUEST_INTERVAL after its
\* call, a caller that did not suspend dispatched at the time of its call,
\* and once the timer is due the caller can dispatch whatever the other
\* callers are doing.
C32_NoStarvation ==
  \A c \in Callers :
    /\ pc[c] = "sleeping" =>
         /\ wakeAt[c] > callNow[c]
         /\ wakeAt[c] <= callNow[c] + MIN_REQUEST_INTERVAL
         /\ clock >= callNow[c] + MIN_REQUEST_INTERVAL => ENABLED RLWake(c)
    /\ (pc[c] = "fetching" /\ wakeAt[c] < callNow[c]) => dispatchAt[c] = callNow[c]

\* every caller is suspended at once, one of them for the full interval
C32_Witness ==
  /\ \A c \in Callers : pc[c] = "sleeping"
  /\ \E c \in Callers : wakeAt[c] = callNow[c] + MIN_REQUEST_INTERVAL
  /\ \E c \in Callers : clock >= wakeAt[c]

\* ------------------------------------------ per-client limiter, isolation
\* the client identifier as the claim words it: the first x-forwarded-for
\* value, else x-real-ip, else the 'unknown' sentinel
ClientId(req) ==
  LET first == IF req.xff.kind = "array" THEN req.xff.items[1].parts[1].id
               ELSE IF req.xff.kind = "string" THEN req.xff.parts[1].id
               ELSE ""
  IN IF first # "" THEN first
     ELSE IF req.realIp # "" THEN req.realIp
     ELSE "unknown"

\* the log the limiter holds for a client identifier
LogOf(m, id) == IF id \in DOMAIN m THEN m[id] ELSE << >>

\* C33: a check by one client leaves the log of every client with another
\* identifier unchanged, its outcome depends on the allowed calls of its own
\* identifier alone, and an allowed check is counted against every request
\* with the same identifier.
C33_ClientIsolation ==
  [][\A r \in ClientRequests : IsRateLimited(r) =>
       LET id == ClientId(r) IN
         /\ \A o \in ClientRequests :
              ClientId(o) # id =>
                LogOf(rateLimitByIp', ClientId(o)) = LogOf(rateLimitByIp, ClientId(o))
         /\ \A j \in DOMAIN allowedLog : j # id => allowedLog'[j] = allowedLog[j]
         /\ ret'.val <=> InWindow(allowedLog[id], clock) >= RATE_MAX
         /\ \A o \in ClientRequests :
              (ClientId(o) = id /\ ~ret'.val) =>
                /\ LogOf(rateLimitByIp', ClientId(o)) # << >>
                /\ LET log == LogOf(rateLimitByIp', ClientId(o)) IN log[Len(log)] = clock
    ]_vars

\* one client is allowed while another client's window is full
C33_Witness ==
  /\ ret.op = "isRateLimited" /\ ret.val = FALSE
  /\ \E j \in DOMAIN rateLimitByIp :
       /\ j # ret.arg
       /\ InWindow(rateLimitByIp[j], clock) = RATE_MAX
  /\ Len(LogOf(rateLimitByIp, ret.arg)) = 1

\* --------------------------------------------------- cache, overwriting set
\* the keys of a map in insertion order
KeyOrder(m) == [i \in 1..Len(m) |-> m[i].key]

\* every entry of m under a key other than k is in m2 at the same position
OthersKept(m, m2, k) ==
  /\ KeyOrder(m2) = KeyOrder(m)
  /\ \A i \in 1..Len(m) : m[i].key # k => m2[i] = m[i]

\* C34: a set for a key that is already present replaces that key's value
\* and expiry and neither removes nor reorders any other key, on either
\* cache and also when the map is at capacity.
C34_OverwriteInPlace ==
  [][
      /\ \A k \in CacheKeys, in \in SchedInputs :
          (MapHas(schedCache, k) /\ CacheSet(k, in.data, in.ttl)) =>
            /\ OthersKept(schedCache, schedCache', k)
            /\ MapGet(schedCache', k).data = in.data
            /\ MapGet(schedCache', k).expires = clock + in.ttl
      /\ \A k \in CacheKeys, d \in Data :
          (MapHas(ftCache, k) /\ SetCache(k, d)) =>
            /\ OthersKept(ftCache, ftCache', k)
            /\ MapGet(ftCache', k).data = d
            /\ MapGet(ftCache', k).ts = clock
    ]_vars

\* ------------------------------------------ concurrent requests, one key
\* the other invocation is in flight for the key this invocation asks for
FtPeerInFlight(f) ==
  parked.ft.pc \in {"fetching", "reading"} /\ parked.ft.flight = f.flight

SchedPeerInFlight(a) ==
  /\ parked.agg.pc \in {"fetching", "reading"}
  /\ parked.agg.single = a.single /\ parked.agg.dir = a.dir /\ parked.agg.ts = a.ts
  /\ a.single => parked.agg.pageNum = a.pageNum

\* the cache key of the schedule invocation a
KeyOf(a) == IF a.single THEN SchedKey(a.dir, a.ts, a.pageNum) ELSE AggKey(a.dir, a.ts)

\* C35: there is no in-flight de-duplication. A request that arrives for
\* an uncached key while another request for the same key is in flight
\* starts its own upstream fetch; every request that fetched answers with
\* cached: false and stores its own result over whatever the key holds, so
\* the cache holds the result of the request that stored last.
C35_NoDeduplication ==
  [][parked' = parked =>
      /\ ( /\ ft.pc = "idle" /\ ft'.pc # "idle"
           /\ FtPeerInFlight(ft')
           /\ ~MapHas(ftCache, FtKey(ft'.flight))
           /\ ftResponse'.status # 429 )
         => /\ ft'.pc = "fetching"
            /\ ftResponse' = NoResponse
            /\ ftCache' = ftCache
      /\ ( /\ agg.pc = "idle" /\ agg'.pc # "idle"
           /\ SchedPeerInFlight(agg')
           /\ ~MapHas(schedCache, KeyOf(agg')) )
         => /\ agg'.pc = "fetching"
            /\ Len(requested') = 1
            /\ ncalls' = ncalls + 1
      /\ (ft.pc = "reading" /\ ft'.pc = "done" /\ ftResponse'.status = 200)
         => /\ ~ftResponse'.body.cached
            /\ MapGet(ftCache', FtKey(ft.flight)).data = ftResponse'.body
      /\ (agg.pc = "reading" /\ agg'.pc = "done" /\ response'.status = 200)
         => /\ ~response'.body.cached
            /\ MapGet(schedCache', KeyOf(agg)).data =
                 IF agg.single THEN response'.body.sched ELSE response'.body
    ]_vars

\* two requests for one flight were in flight together: both fetched, both
\* answered cached: false with different results, and the cache holds the
\* result of the one that stored last
C35_Witness ==
  /\ ft.pc = "done" /\ parked.ft.pc = "done"
  /\ ft.flight = parked.ft.flight
  /\ ft.got.kind = "html" /\ parked.ft.got.kind = "html"
  /\ ftResponse.status = 200 /\ parked.ftResponse.status = 200
  /\ ~ftResponse.body.cached /\ ~parked.ftResponse.body.cached
  /\ ftResponse.body # parked.ftResponse.body
  /\ MapGet(ftCache, FtKey(ft.flight)).data = parked.ftResponse.body

\* C36: the body of a cache hit is the body of the miss response that
\* stored the entry with cached: true in place of cached: false, on the
\* flight-times endpoint and in both modes of the schedule endpoint, and
\* serving a hit leaves the stored entry (and the whole map) as it was.
C36_HitBodyIsMissBody ==
  [][
      /\ (agg.pc = "idle" /\ agg'.pc = "done" /\ response'.status = 200)
         => LET e == MapGet(schedCache, KeyOf(agg'))
            IN /\ schedCache' = schedCache
               /\ \E sv \in served : SameRequest(sv, agg') /\ sv.data = e.data
               /\ IF agg'.single
                  THEN response'.body = [sched |-> e.data, cached |-> TRUE]
                  ELSE /\ ~e.data.cached
                       /\ response'.body = [e.data EXCEPT !.cached = TRUE]
      /\ (agg.pc = "reading" /\ agg'.pc = "done" /\ response'.status = 200)
         => \E sv \in served' :
              /\ SameRequest(sv, agg') /\ sv.at = clock
              /\ sv.data = MapGet(schedCache', KeyOf(agg')).data
              /\ IF agg'.single
                 THEN response'.body = [sched |-> sv.data, cached |-> FALSE]
                 ELSE response'.body = sv.data /\ ~sv.data.cached
      /\ (ft.pc = "idle" /\ ft'.pc = "done" /\ ftResponse'.status = 200)
         => LET e == MapGet(ftCache, FtKey(ft'.flight))
            IN /\ ftCache' = ftCache
               /\ ~e.data.cached
               /\ ftResponse'.body = [e.data EXCEPT !.cached = TRUE]
      /\ (ft.pc = "reading" /\ ft'.pc = "done" /\ ftResponse'.status = 200)
         => /\ ftResponse'.body = [MapGet(ftCache', FtKey(ft'.flight)).data
                                     EXCEPT !.cached = FALSE]
            /\ ftResponse'.body.flight = FtResult(ft'.flight, NoFlight).flight
    ]_vars

\* a request was answered from an entry that an earlier miss stored: an
\* aggregation hit, a single-page hit or a flight-times hit on an entry
\* whose data is a parsed flight
C36_Witness ==
  \/ /\ agg.pc = "done" /\ response.status = 200 /\ response.body.cached
     /\ ~agg.single /\ Len(response.body.flights) > 0
     /\ \E sv \in served : SameRequest(sv, agg) /\ sv.at < clock
  \/ /\ ft.pc = "done" /\ ftResponse.status = 200 /\ ftResponse.body.cached
     /\ ftResponse.body.best = LogFlight(1, 0)

\* C37: eviction ignores expiry. A set on a full cache deletes the entry
\* that was inserted earliest, expired or not, and deletes no other
\* entry: apart from the key being set, the map afterwards holds the
\* entries that followed the first one, unchanged and in their order, so
\* expired entries that nobody read stay in the map.
C37_EvictionIgnoresExpiry ==
  [][
      /\ (cacheOps' # cacheOps /\ ret'.op = "cacheSet" /\ SchedFull(schedCache))
         => /\ ret'.val = schedCache[1]
            /\ SelectSeq(schedCache', LAMBDA e : e.key # ret'.arg)
                 = SelectSeq(Tail(schedCache), LAMBDA e : e.key # ret'.arg)
      /\ (cacheOps' # cacheOps /\ ret'.op = "setCache" /\ FtFull(ftCache))
         => /\ ret'.val = ftCache[1]
            /\ SelectSeq(ftCache', LAMBDA e : e.key # ret'.arg)
                 = SelectSeq(Tail(ftCache), LAMBDA e : e.key # ret'.arg)
    ]_vars

\* a set has just deleted an entry that had not expired and is gone,
\* while the map still holds an entry that has expired
C37_Witness ==
  \/ /\ ret.op = "cacheSet" /\ ret.val # Null
     /\ ~SchedExpired(ret.val, clock)
     /\ ~MapHas(schedCache, ret.val.key)
     /\ \E i \in 1..Len(schedCache) : SchedExpired(schedCache[i], clock)
  \/ /\ ret.op = "setCache" /\ ret.val # Null
     /\ ~FtExpired(ret.val, clock)
     /\ ~MapHas(ftCache, ret.val.key)
     /\ \E i \in 1..Len(ftCache) : FtExpired(ftCache[i], clock)

\* the sum of the numbers of a sequence
RECURSIVE SumOf(_)
SumOf(ns) == IF Len(ns) = 0 THEN 0 ELSE ns[1] + SumOf(Tail(ns))

\* an aggregation has just answered with a result it built from upstream pages
BuiltResult ==
  agg.pc = "done" /\ ~agg.single /\ response.status = 200 /\ ~response.body.cached

\* the counters of a result other than pagesScanned
CountersAgree ==
  BuiltResult =>
    /\ response.body.totalFetched = SumOf(pageLens)
    /\ response.body.total = Len(response.body.flights)
    /\ response.body.total <= response.body.totalFetched

\* C38: in every aggregation result pagesScanned is the number of upstream
\* pages that were requested, totalFetched is the sum of the record counts
\* of the requested pages, total is the length of flights and total <=
\* totalFetched, however the loop ended and whatever page.total the
\* responses reported.
C38_ResultCounters ==
  /\ CountersAgree
  /\ BuiltResult => response.body.pagesScanned = Len(requested)

\* the flight-times invocation ends in one of the failure answers that
\* follow the limiter
FailsAfterLimiter ==
  /\ ft.pc \in {"fetching", "reading"} /\ ft'.pc = "done"
  /\ ftResponse'.status \in {502, 504, 404}

\* C39: the per-client quota is consumed before the upstream fetch and is
\* not refunded: a request that passes the limiter has its timestamp in the
\* client's log when the fetch starts, an answer of 502, 504 or 404 and the
\* end of the invocation leave the log as it is, and a cache-miss request
\* of a client with 5 logged requests in the last 60 s gets 429, whether
\* or not those requests failed.
C39_QuotaNotRefunded ==
  [][
      /\ (ft.pc = "idle" /\ ft'.pc = "fetching")
         => LET log == LogOf(rateLimitByIp', ft'.ip)
            IN Len(log) > 0 /\ log[Len(log)] = clock /\ ft'.startedAt = clock
      /\ FailsAfterLimiter
         => /\ rateLimitByIp' = rateLimitByIp
            /\ \E i \in 1..Len(LogOf(rateLimitByIp', ft.ip)) :
                 LogOf(rateLimitByIp', ft.ip)[i] = ft.startedAt
      /\ (ft.pc = "done" /\ ft'.pc = "idle") => rateLimitByIp' = rateLimitByIp
      /\ (ft.pc = "idle" /\ (ft'.pc = "fetching" \/ ftResponse'.status = 429))
         => (ftResponse'.status = 429
               <=> InWindow(LogOf(rateLimitByIp, ft'.ip), clock) >= RATE_MAX)
    ]_vars

\* the client's fifth request within the window failed, nothing was ever
\* stored, and its next request is answered 429
C39_Witness ==
  /\ ft.pc = "done" /\ ftResponse.status = 429
  /\ nreqs = 2
  /\ ftCache = << >>
  /\ Len(LogOf(rateLimitByIp, ft.ip)) = RATE_MAX
  /\ LogOf(rateLimitByIp, ft.ip)[RATE_MAX] >= StartTime
  /\ LogOf(rateLimitByIp, ft.ip)[1] >= clock - RATE_WINDOW_MS

\* C40: normalizeFlightNumber is idempotent on strings: normalizing the
\* value it returned for a string (or a falsy value) returns that value
\* unchanged, so every value that passes the handler's format check, which
\* is applied to the normalized value, is a fixed point.
C40_NormalizeIdempotent ==
  (ret.op = "normalizeFlightNumber" /\ ~ret.val.threw) =>
    /\ NormalizeFlightNumber(Text(ret.val.value)) = ret.val.value
    /\ ValidFlight(ret.val.value) =>
         /\ ~NormalizeThrows(Text(ret.val.value))
         /\ ValidFlight(NormalizeFlightNumber(Text(ret.val.value)))

\* a text that the normalization changed (case, white space and the UA
\* prefix) into a value the format check accepts
C40_Witness ==
  /\ ret.op = "normalizeFlightNumber" /\ ~ret.val.threw
  /\ ret.arg = Text(<<" ", " ", "u", "a", " ", "8", "3", "8", " ">>)
  /\ ret.val.value = <<"U", "A", "L", "8", "3", "8">>
  /\ ValidFlight(ret.val.value)
====
